---- MODULE Spec2Model ----
(***************************************************************************)
(* A model of the scoring and capital-flow core of the stock analysis      *)
(* platform: StockScoringModel (scoring_service.py), CapitalFlowAnalysis    *)
(* (analysis_service.py), TechnicalIndicators (indicators.py),              *)
(* DataProcessor.calculate_vwap (data_processor.py), HoldingCostAnalysis    *)
(* (cost_analysis_service.py), AlertService (alert_service.py) and the      *)
(* batch scoring drivers (scheduler.py, api/v1/capital.py,                  *)
(* api/v1/strategy.py) and the endpoints of api/v1/capital.py,              *)
(* api/v1/stock.py and api/v1/block.py.                                     *)
(*                                                                         *)
(* Numbers.  Scores, ratios and percentages are Python floats in the code. *)
(* Here a score is an integer number of thousandths of a point (Pt(50) is   *)
(* the score 50.0), a weight is an integer number of hundredths             *)
(* (0.40 is 40), money amounts are integers (yuan).  The input sets below  *)
(* are chosen so that every division the code performs is exact on them.    *)
(*                                                                         *)
(* Rows.  fetchone() returns a row or None: a row variable is a sequence,   *)
(* <<>> for None and <<r>> for the row r.  A column the code guards with    *)
(* `if result.x:` is falsy for NULL and for 0 alike; 0 stands for both,     *)
(* except in prev_inflow of the alerts, where NULL is <<>>.                 *)
(***************************************************************************)
EXTENDS Integers, Sequences, FiniteSets, TLC

VARIABLES
    capRow,      \* stock_price_distribution row of (stock, date), or <<>>
    dayRow,      \* stock_day_data row of (stock, date), or <<>>
    blockRow,    \* stock_block_membership LEFT JOIN block_capital_flow row, or <<>>
    weights,     \* StockScoringModel.weights
    report,      \* the result of score_stock: <<>> before the call, <<r>> after
    sig_args,    \* the arguments of a call of _generate_signal, or <<>>
    sig_result,  \* what that call returned: <<>> before the call, <<signal>> after
    risk_row,    \* the row a call of _calculate_risk_score fetched, in a 1-tuple
    risk_result, \* what that call returned: <<>> before the call, <<score>> after
    flow_table,  \* the per-(block, date) aggregates the block-flow query groups
    flow_args,   \* the arguments of calculate_block_capital_flow
    tie_order,   \* how the database orders rows of equal net_inflow
    block_result, \* what the call returned: <<>> before the call, <<list>> after
    ma_args,     \* the arguments of calculate_ma: [prices, period], or <<>>
    ma_values,   \* what the call returned: <<>> before the call, <<list>> after
    driver,      \* the batch run: "scheduler", "top_stocks", "top_scoring" or "none"
    stocks,      \* the stock list the run's query fetched: what scoring each one does
    request,     \* the run's parameters: [min_score, limit]
    pre_ok,      \* whether the steps before the loop succeed
    pc,          \* where the run is: "start", "loop", "done", "failed"
    idx,         \* the position in the list of the stock scored next
    attempted,   \* the positions scored so far, in order
    results,     \* the list the loop collects (the scores stored, for the scheduler)
    response,    \* what the run answers once over: <<>>, <<reply>>
    series_args, \* a call of a series utility: [fn, ...its arguments], or <<>>
    series_result, \* what that call returned: <<>> before the call, <<value>> after
    cost_args,   \* a call into HoldingCostAnalysis: [fn, ...its arguments], or <<>>
    cost_result, \* what that call returned: <<>> before the call, <<value>> after
    alert_row,   \* the row a call of _check_capital_alerts fetched, in a 1-tuple
    alert_result, \* what that call returned: <<>> before the call, <<alerts>> after
    api_args,    \* a call of an analyzer or an endpoint: [fn, ...what it is given], or <<>>
    api_result   \* what that call answered: <<>> before the call, <<value>> after

scoreVars == <<capRow, dayRow, blockRow, weights, report>>

signalVars == <<sig_args, sig_result>>

riskVars == <<risk_row, risk_result>>

blockVars == <<flow_table, flow_args, tie_order, block_result>>

maVars == <<ma_args, ma_values>>

batchVars == <<driver, stocks, request, pre_ok, pc, idx, attempted, results, response>>

seriesVars == <<series_args, series_result>>

costVars == <<cost_args, cost_result>>

alertVars == <<alert_row, alert_result>>

apiVars == <<api_args, api_result>>

\* the variables of the series utilities, the holding-cost analysis, the alerts and
\* the endpoints
otherVars == <<seriesVars, costVars, alertVars, apiVars>>

vars == <<scoreVars, signalVars, riskVars, blockVars, maVars, batchVars, otherVars>>

----------------------------------------------------------------------------
(* Arithmetic helpers *)

\* x points, in thousandths of a point
Pt(x) == x * 1000

Min(a, b) == IF a <= b THEN a ELSE b

Max(a, b) == IF a >= b THEN a ELSE b

Abs(a) == IF a >= 0 THEN a ELSE -a

\* min(max(score, 0), 100)
Clamp(score) == Min(Max(score, 0), Pt(100))

\* np.log10 on the powers of ten (the amounts the model draws are powers of
\* ten, where log10 is an integer): the number of times n divides by 10
RECURSIVE Log10(_)
Log10(n) == IF n < 10 THEN 0 ELSE 1 + Log10(n \div 10)

----------------------------------------------------------------------------
(* scoring_service.py *)

\* ScoringWeights defaults, in hundredths
ScoringWeights == [capital |-> 40, technical |-> 30, fundamental |-> 20, risk |-> 10]

\* the capital score before its clamp: base 50 and the four terms
capital_terms(r) ==
    LET s0 == Pt(50)
        s1 == IF r.net_inflow > 0 THEN s0 + Min(r.inflow_ratio * 2, Pt(25)) ELSE s0
        s2 == IF r.large_net_inflow > 0
                THEN s1 + Min(r.large_inflow_ratio * 2, Pt(25)) ELSE s1
        continuity_score == Min(Pt(r.positive_days * 4), Pt(20))
        s3 == s2 + continuity_score
        amount_adjust == Min(Pt(Log10(Max(r.total_amount, 1)) - 6), Pt(10))
    IN s3 + amount_adjust

\* mutant of _calculate_capital_score: `return score`, the clamp forgotten
calculate_capital_score_unclamped(result) ==
    IF result = <<>> THEN Pt(50) ELSE capital_terms(result[1])

\* _calculate_capital_score: result is <<>> or <<row>>
calculate_capital_score(result) ==
    IF result = <<>> THEN Pt(50) ELSE Clamp(capital_terms(result[1]))

\* the moving-average ordering term of _calculate_technical_score
ma_score(r) ==
    IF r.ma5 # 0 /\ r.ma20 # 0 /\ r.ma60 # 0
      THEN IF r.ma5 > r.ma20 /\ r.ma20 > r.ma60 THEN Pt(30)
           ELSE IF r.ma5 > r.ma20 THEN Pt(20)
           ELSE IF r.close_price > r.ma5 THEN Pt(10)
           ELSE 0
      ELSE 0

\* the volume-price term: volume_ratio = volume / vma5 if vma5 > 0 else 1
volume_price_score(r) ==
    IF r.volume # 0 /\ r.vma5 # 0
      THEN LET gt12 == IF r.vma5 > 0 THEN r.volume * 10 > r.vma5 * 12 ELSE FALSE
               gt10 == IF r.vma5 > 0 THEN r.volume > r.vma5 ELSE FALSE
           IN IF r.change_pct > 0 /\ gt12 THEN Pt(20)
              ELSE IF r.change_pct > 0 /\ gt10 THEN Pt(10)
              ELSE 0
      ELSE 0

\* the trend-strength term: min(abs((ma5 - ma20) / ma20 * 100), 15)
trend_strength_score(r) ==
    IF r.ma5 # 0 /\ r.ma20 # 0
      THEN Min(Abs(((r.ma5 - r.ma20) * 100000) \div r.ma20), Pt(15))
      ELSE 0

\* the near-limit adjustment
limit_adjust(r) ==
    IF r.change_pct # 0
      THEN IF r.change_pct > 9 THEN -Pt(10)
           ELSE IF r.change_pct < -9 THEN Pt(5)
           ELSE 0
      ELSE 0

\* _calculate_technical_score
calculate_technical_score(result) ==
    IF result = <<>> THEN Pt(50)
    ELSE
      LET r == result[1]
      IN Clamp(Pt(50) + ma_score(r) + volume_price_score(r)
                 + trend_strength_score(r) + limit_adjust(r))

\* _calculate_fundamental_score
calculate_fundamental_score(result) ==
    IF result = <<>> THEN Pt(50)
    ELSE
      LET r == result[1]
          s0 == Pt(50)
          s1 == IF r.inflow_ratio # 0 THEN s0 + Min(r.inflow_ratio * 5, Pt(25)) ELSE s0
          s2 == IF r.ranking # 0 THEN s1 + Max(0, Pt(20) - r.ranking * 200) ELSE s1
          s3 == IF r.continuity_days # 0
                  THEN s2 + Min(Pt(r.continuity_days * 3), Pt(15)) ELSE s2
          s4 == IF r.block_type = "concept" THEN s3 + Pt(5)
                ELSE IF r.block_type = "industry" THEN s3 + Pt(10)
                ELSE s3
      IN Clamp(s4)

\* mutant of the amplitude tiers: the middle tier deducts 10 like the lowest
amplitude_deduction_flat_tier(r) ==
    IF r.amplitude # 0
      THEN IF r.amplitude > 10 THEN Pt(30)
           ELSE IF r.amplitude > 7 THEN Pt(10)
           ELSE IF r.amplitude > 5 THEN Pt(10)
           ELSE 0
      ELSE 0

\* the four deductions of _calculate_risk_score
amplitude_deduction(r) ==
    IF r.amplitude # 0
      THEN IF r.amplitude > 10 THEN Pt(30)
           ELSE IF r.amplitude > 7 THEN Pt(20)
           ELSE IF r.amplitude > 5 THEN Pt(10)
           ELSE 0
      ELSE 0

\* a slip: the top tier deducts 35
turnover_deduction_steep(r) ==
    IF r.turnover_rate # 0
      THEN IF r.turnover_rate > 20 THEN Pt(35)
           ELSE IF r.turnover_rate > 10 THEN Pt(15)
           ELSE IF r.turnover_rate > 5 THEN Pt(5)
           ELSE 0
      ELSE 0

turnover_deduction(r) ==
    IF r.turnover_rate # 0
      THEN IF r.turnover_rate > 20 THEN Pt(25)
           ELSE IF r.turnover_rate > 10 THEN Pt(15)
           ELSE IF r.turnover_rate > 5 THEN Pt(5)
           ELSE 0
      ELSE 0

liquidity_deduction(r) ==
    IF r.total_amount # 0
      THEN IF r.total_amount < 10000000 THEN Pt(20)
           ELSE IF r.total_amount < 50000000 THEN Pt(10)
           ELSE 0
      ELSE 0

volatility_deduction(r) ==
    IF r.volatility_20d # 0
      THEN IF r.volatility_20d > 3 THEN Pt(15)
           ELSE IF r.volatility_20d > 2 THEN Pt(10)
           ELSE 0
      ELSE 0

\* mutant of _calculate_risk_score: a missing row scores the deductive base 100
calculate_risk_score_missing_100(result) ==
    IF result = <<>> THEN Pt(100)
    ELSE
      LET r == result[1]
      IN Clamp(Pt(100) - amplitude_deduction(r) - turnover_deduction(r)
                 - liquidity_deduction(r) - volatility_deduction(r))

\* _calculate_risk_score
calculate_risk_score(result) ==
    IF result = <<>> THEN Pt(50)
    ELSE
      LET r == result[1]
      IN Clamp(Pt(100) - amplitude_deduction(r) - turnover_deduction(r)
                 - liquidity_deduction(r) - volatility_deduction(r))

\* the signal_types dict of _generate_signal, in its insertion order:
\* <<name, low, high>>
signal_types ==
    << <<"strong_buy", Pt(80), Pt(100)>>,
       <<"buy", Pt(70), Pt(80)>>,
       <<"watch", Pt(60), Pt(70)>>,
       <<"hold", Pt(50), Pt(60)>>,
       <<"reduce", Pt(40), Pt(50)>>,
       <<"sell", Pt(30), Pt(40)>>,
       <<"strong_sell", 0, Pt(30)>> >>

\* mutant of the band test: low < total_score <= high
in_band_upper_closed(total_score, band) == band[2] < total_score /\ total_score <= band[3]

\* the band test of the scan: low <= total_score < high
in_band(total_score, band) == band[2] <= total_score /\ total_score < band[3]

\* the scan `for sig, (low, high) in signal_types.items(): ... break`, from
\* position i on; 'hold' is the value signal_type keeps when no band matches
RECURSIVE scan_signal_types(_, _)
scan_signal_types(total_score, i) ==
    IF i > Len(signal_types) THEN "hold"
    ELSE IF in_band(total_score, signal_types[i]) THEN signal_types[i][1]
    ELSE scan_signal_types(total_score, i + 1)

\* the base strength of a signal type
base_strength(signal_type) ==
    IF signal_type \in {"strong_buy", "strong_sell"} THEN 3
    ELSE IF signal_type \in {"buy", "sell"} THEN 2
    ELSE IF signal_type \in {"watch", "reduce"} THEN 1
    ELSE 0

\* mutant of the coordination test: >= 0.3
uncoordinated_inclusive(capital_score, technical_score) ==
    Abs(capital_score - technical_score) >= Pt(30)

\* coordination = abs(capital_score - technical_score) / 100 > 0.3
uncoordinated(capital_score, technical_score) ==
    Abs(capital_score - technical_score) > Pt(30)

\* _get_signal_description is called by _generate_signal and defined nowhere
\* in the sources: a text that is a function of type and strength
get_signal_description(signal_type, strength) == <<signal_type, strength>>

\* _generate_signal
generate_signal(total_score, capital_score, technical_score) ==
    LET signal_type == scan_signal_types(total_score, 1)
        strength0 == base_strength(signal_type)
        strength == IF uncoordinated(capital_score, technical_score)
                      THEN Max(0, strength0 - 1) ELSE strength0
    IN [type |-> signal_type,
        strength |-> strength,
        confidence |-> Min(Pt(100), total_score),
        description |-> get_signal_description(signal_type, strength)]

\* the strengths and weaknesses lists of _generate_analysis
generate_analysis(capital_score, technical_score, fundamental_score, risk_score) ==
    LET st1 == IF capital_score >= Pt(70) THEN <<"capital_strong">>
               ELSE IF capital_score >= Pt(60) THEN <<"capital_good">> ELSE <<>>
        st2 == IF technical_score >= Pt(70) THEN <<"technical_strong">>
               ELSE IF technical_score >= Pt(60) THEN <<"technical_good">> ELSE <<>>
        st3 == IF fundamental_score >= Pt(70) THEN <<"block_hot">> ELSE <<>>
        st4 == IF risk_score >= Pt(80) THEN <<"risk_low">> ELSE <<>>
        wk1 == IF capital_score <= Pt(40) THEN <<"capital_weak">> ELSE <<>>
        wk2 == IF technical_score <= Pt(40) THEN <<"technical_weak">> ELSE <<>>
        wk3 == IF risk_score <= Pt(40) THEN <<"risk_high">> ELSE <<>>
    IN [strengths |-> st1 \o st2 \o st3 \o st4,
        weaknesses |-> wk1 \o wk2 \o wk3]

\* round(x, 2): to the nearest hundredth of a point, ties to the even one
round2(x) ==
    LET q == x \div 10
        m == x % 10
    IN IF m < 5 THEN q * 10
       ELSE IF m > 5 THEN (q + 1) * 10
       ELSE IF q % 2 = 0 THEN q * 10 ELSE (q + 1) * 10

\* total_score = sum of sub-score * weight
weighted_total(w, capital_score, technical_score, fundamental_score, risk_score) ==
    (capital_score * w.capital + technical_score * w.technical
       + fundamental_score * w.fundamental + risk_score * w.risk) \div 100

\* score_stock: the report it returns for the three rows its queries fetch
score_stock(w, cap, day, block) ==
    LET capital_score == calculate_capital_score(cap)
        technical_score == calculate_technical_score(day)
        fundamental_score == calculate_fundamental_score(block)
        risk_score == calculate_risk_score(day)
        total_score == weighted_total(w, capital_score, technical_score,
                                      fundamental_score, risk_score)
    IN [scores |-> [capital |-> round2(capital_score),
                    technical |-> round2(technical_score),
                    fundamental |-> round2(fundamental_score),
                    risk |-> round2(risk_score),
                    total |-> round2(total_score)],
        weights |-> w,
        signal |-> generate_signal(total_score, capital_score, technical_score),
        analysis |-> generate_analysis(capital_score, technical_score,
                                       fundamental_score, risk_score)]

----------------------------------------------------------------------------
(* analysis_service.py: CapitalFlowAnalysis.calculate_block_capital_flow *)

\* x / n > y / m for fractions with positive denominators
FracGreater(a, b) == a.sum * b.n > b.sum * a.n

\* mutant of the final sort: ascending (reverse=True forgotten)
avg_inflow_ratio_asc(a, b) == FracGreater(b.avg_inflow_ratio, a.avg_inflow_ratio)

\* the order of final_results.sort(key=avg_inflow_ratio, reverse=True)
avg_inflow_ratio_desc(a, b) == FracGreater(a.avg_inflow_ratio, b.avg_inflow_ratio)

\* whether a has to come before b in the sort named by key
Before(key, a, b) ==
    CASE key = "net_inflow_desc" -> a.net_inflow > b.net_inflow
      [] key = "date_asc" -> a.date < b.date
      [] key = "avg_inflow_ratio_desc" -> avg_inflow_ratio_desc(a, b)
      [] key = "total_desc" -> a.total > b.total
      [] key = "price_level_asc" -> FracGreater(b.price_level, a.price_level)
      [] key = "value_asc" -> a < b
      [] key = "value_desc" -> a > b

\* list.sort / sorted: a stable sort of s by the order named by key. The
\* element at position i ends after the elements that have to come before it
\* and after the earlier elements that do not have to come after it
StableSort(key, s) ==
    LET n == Len(s)
        ahead == [i \in 1..n |->
                    Cardinality({j \in 1..n : \/ Before(key, s[j], s[i])
                                              \/ j < i /\ ~Before(key, s[i], s[j])})]
    IN [k \in 1..n |-> s[CHOOSE i \in 1..n : ahead[i] = k - 1]]

\* the rows of a set in the order of the database's tie-break
RowKey(r) == r.block_code * 1000 + r.trade_date

InKeyOrder(rows, tie) ==
    LET ahead == [r \in rows |->
                    Cardinality({q \in rows : IF tie = "asc" THEN RowKey(q) < RowKey(r)
                                              ELSE RowKey(q) > RowKey(r)})]
    IN [k \in 1..Cardinality(rows) |-> CHOOSE r \in rows : ahead[r] = k - 1]

\* the query: the aggregates of the window [trade_date - (days - 1), trade_date],
\* ordered by net_inflow descending, equal ones in the database's order
block_flow_query(table, trade_date, days, tie) ==
    LET start_date == trade_date - (days - 1)
        selected == {r \in table : start_date <= r.trade_date /\ r.trade_date <= trade_date}
    IN StableSort("net_inflow_desc", InKeyOrder(selected, tie))

\* inflow_ratio = net_inflow / total_amount * 100 if total_amount > 0 else 0,
\* in thousandths of a percent
row_inflow_ratio(row) ==
    IF row.total_amount > 0 THEN (row.net_inflow * 100000) \div row.total_amount ELSE 0

\* the entry appended to a block's daily_flows
daily_flow(row) ==
    [date |-> row.trade_date,
     net_inflow |-> row.net_inflow,
     inflow_ratio |-> row_inflow_ratio(row),
     total_amount |-> row.total_amount]

\* the blocks dict after the loop over result: a sequence of block_data in
\* insertion order, the order in which the block codes first appear; each
\* holds the flows of its rows in the order the rows arrived
group_blocks(result) ==
    LET first == {i \in 1..Len(result) :
                    \A j \in 1..(i - 1) : result[j].block_code # result[i].block_code}
        flows == [i \in 1..Len(result) |-> daily_flow(result[i])]
    IN [k \in 1..Cardinality(first) |->
          LET i == CHOOSE f \in first : Cardinality({g \in first : g <= f}) = k
              same == {j \in 1..Len(result) : result[j].block_code = result[i].block_code}
          IN [block_code |-> result[i].block_code,
              block_type |-> result[i].block_type,
              daily_flows |-> [m \in 1..Cardinality(same) |->
                                 flows[CHOOSE j \in same :
                                         Cardinality({h \in same : h <= j}) = m]]]]

\* mutant of the date sort: daily_flows used in the order the rows arrived
sorted_by_date_unsorted(daily_flows) == daily_flows

\* sorted(block_data['daily_flows'], key=lambda x: x['date'])
sorted_by_date(daily_flows) == StableSort("date_asc", daily_flows)

\* the loop `for flow in reversed(flows)`, from position i down
RECURSIVE count_continuity(_, _)
count_continuity(flows, i) ==
    IF i = 0 THEN 0
    ELSE IF flows[i].net_inflow > 0 THEN 1 + count_continuity(flows, i - 1)
    ELSE 0

RECURSIVE sum_inflow_ratio(_, _)
sum_inflow_ratio(flows, i) ==
    IF i = 0 THEN 0 ELSE flows[i].inflow_ratio + sum_inflow_ratio(flows, i - 1)

\* np.mean([f['inflow_ratio'] for f in flows]), as the fraction sum / n
mean_inflow_ratio(flows) == [sum |-> sum_inflow_ratio(flows, Len(flows)), n |-> Len(flows)]

\* the entry of final_results for one block
block_entry(block_data) ==
    LET flows == sorted_by_date(block_data.daily_flows)
    IN [block_code |-> block_data.block_code,
        block_type |-> block_data.block_type,
        daily_flows |-> block_data.daily_flows,
        continuity_days |-> count_continuity(flows, Len(flows)),
        avg_inflow_ratio |-> mean_inflow_ratio(flows),
        latest_flow |-> flows[Len(flows)]]

\* s[:n]
Take(s, n) == SubSeq(s, 1, Min(n, Len(s)))

\* calculate_block_capital_flow
calculate_block_capital_flow(table, trade_date, days, tie) ==
    LET result == block_flow_query(table, trade_date, days, tie)
        blocks == group_blocks(result)
        final_results == [i \in 1..Len(blocks) |-> block_entry(blocks[i])]
    IN Take(StableSort("avg_inflow_ratio_desc", final_results), 20)

----------------------------------------------------------------------------
(* utils/indicators.py: TechnicalIndicators.calculate_ma *)

\* a float that is a mean (sum / n), and np.nan
Mean(sum, n) == [defined |-> TRUE, sum |-> sum, n |-> n]

NaN == [defined |-> FALSE, sum |-> 0, n |-> 1]

\* prices[a:b] for 0 <= a and 0 <= b, on a 0-indexed list
PySlice(prices, a, b) ==
    LET hi == Min(b, Len(prices))
    IN IF a >= hi THEN <<>> ELSE SubSeq(prices, a + 1, hi)

RECURSIVE SeqSum(_)
SeqSum(s) == IF s = <<>> THEN 0 ELSE s[1] + SeqSum(Tail(s))

\* np.mean of a list: nan for the empty list
np_mean(s) == IF s = <<>> THEN NaN ELSE Mean(SeqSum(s), Len(s))

\* mutant of the window of position i: prices[i - period:i]
ma_window_shifted(prices, i, period) == PySlice(prices, Max(i - period, 0), i)

\* the window of position i (0-indexed): prices[i - period + 1:i + 1]
ma_window(prices, i, period) == PySlice(prices, i - period + 1, i + 1)

\* calculate_ma
calculate_ma(prices, period) ==
    IF Len(prices) < period THEN [k \in 1..Len(prices) |-> NaN]
    ELSE [k \in 1..Len(prices) |->
            LET i == k - 1
            IN IF i < period - 1 THEN NaN ELSE np_mean(ma_window(prices, i, period))]

----------------------------------------------------------------------------
(* The batch scoring runs: scheduler.update_daily_analysis,                *)
(* api/v1/capital.get_top_stocks, api/v1/strategy.get_top_scoring_stocks   *)

\* what scoring one stock does: it raises, or returns a report of this total
Raises == [raises |-> TRUE, total |-> 0]

Scored(total) == [raises |-> FALSE, total |-> total]

\* s[:n] of Python, for any integer n
PySliceTo(s, n) == IF n >= 0 THEN Take(s, n) ELSE SubSeq(s, 1, Max(0, Len(s) + n))

\* the list the loop iterates: stocks[:500] in get_top_stocks, stocks otherwise
batch_list(drv, fetched) == IF drv = "top_stocks" THEN PySliceTo(fetched, 500) ELSE fetched

\* the steps before the loop (the block-flow update of the scheduler, the
\* stock query): when one raises, the outer handler ends the run
BatchStart ==
    /\ pc = "start"
    /\ IF pre_ok
         THEN pc' = "loop" /\ response' = response
         ELSE /\ pc' = "failed"
              /\ response' = <<IF driver = "scheduler" THEN [status |-> "logged"]
                               ELSE [status |-> "http_500"]>>
    /\ UNCHANGED <<driver, stocks, request, pre_ok, idx, attempted, results>>
    /\ UNCHANGED <<scoreVars, signalVars, riskVars, blockVars, maVars, otherVars>>

\* one iteration whose scoring returns: the endpoints keep the report when
\* its total reaches min_score; score_and_store of the scheduler stores it
ScoreReturns ==
    /\ pc = "loop"
    /\ idx <= Len(batch_list(driver, stocks))
    /\ ~batch_list(driver, stocks)[idx].raises
    /\ LET score_result == [stock |-> idx, total |-> batch_list(driver, stocks)[idx].total]
       IN results' = IF driver = "scheduler" \/ score_result.total >= request.min_score
                       THEN Append(results, score_result) ELSE results
    /\ attempted' = Append(attempted, idx)
    /\ idx' = idx + 1
    /\ UNCHANGED <<driver, stocks, request, pre_ok, pc, response>>
    /\ UNCHANGED <<scoreVars, signalVars, riskVars, blockVars, maVars, otherVars>>

\* mutant of the per-stock handler: the exception reaches the outer handler
ScoreRaisesUncaught ==
    /\ pc = "loop"
    /\ idx <= Len(batch_list(driver, stocks))
    /\ batch_list(driver, stocks)[idx].raises
    /\ attempted' = Append(attempted, idx)
    /\ pc' = "failed"
    /\ response' = <<IF driver = "scheduler" THEN [status |-> "logged"]
                     ELSE [status |-> "http_500"]>>
    /\ UNCHANGED <<driver, stocks, request, pre_ok, idx, results>>
    /\ UNCHANGED <<scoreVars, signalVars, riskVars, blockVars, maVars, otherVars>>

\* one iteration whose scoring raises: `except Exception` logs (scheduler) or
\* continues (endpoints), and the loop goes on
ScoreRaises ==
    /\ pc = "loop"
    /\ idx <= Len(batch_list(driver, stocks))
    /\ batch_list(driver, stocks)[idx].raises
    /\ attempted' = Append(attempted, idx)
    /\ idx' = idx + 1
    /\ UNCHANGED <<driver, stocks, request, pre_ok, pc, results, response>>
    /\ UNCHANGED <<scoreVars, signalVars, riskVars, blockVars, maVars, otherVars>>

\* after the loop: the endpoints sort the collected reports by total,
\* descending (results.sort(key=total, reverse=True)), cut the list to the
\* limit and answer; the scheduler logs
BatchFinish ==
    /\ pc = "loop"
    /\ idx > Len(batch_list(driver, stocks))
    /\ pc' = "done"
    /\ response' = <<IF driver = "scheduler" THEN [status |-> "updated"]
                     ELSE [status |-> "success",
                           stocks |-> PySliceTo(StableSort("total_desc", results),
                                                request.limit)]>>
    /\ UNCHANGED <<driver, stocks, request, pre_ok, idx, attempted, results>>
    /\ UNCHANGED <<scoreVars, signalVars, riskVars, blockVars, maVars, otherVars>>

----------------------------------------------------------------------------
(* The rows and arguments the scoring model is run on *)

\* stock_price_distribution rows; ratios in thousandths of a percent
CapRows ==
    { [net_inflow |-> n[1], inflow_ratio |-> n[2],
       large_net_inflow |-> l[1], large_inflow_ratio |-> l[2],
       total_amount |-> a, positive_days |-> d] :
         n \in {<<-20000000, -5000>>, <<0, 0>>, <<50000000, 15000>>},
         l \in {<<-1000000, -3000>>, <<40000000, 20000>>},
         a \in {0, 1000000000},
         d \in {0, 6} }
    \cup
    { [net_inflow |-> 1000000, inflow_ratio |-> 2000,
       large_net_inflow |-> 500000, large_inflow_ratio |-> 1000,
       total_amount |-> 10000000, positive_days |-> 3] }

\* the moving-average columns of a stock_day_data row
DayMaColumns ==
    { <<12, 20, 10, 5>>,      \* ma5 > ma20 > ma60
      <<12, 11, 10, 20>>,     \* ma5 > ma20 only
      <<12, 10, 20, 10>>,     \* close > ma5 only
      <<12, 11, 10, 0>>,      \* ma60 is NULL
      <<10, 10, 10, 10>> }

\* the volume and change_pct columns
DayVolumeColumns ==
    { <<13, 10, 5>>, <<11, 10, 5>>, <<13, 10, 10>>, <<0, 0, -10>>, <<10, 10, 0>> }

\* the columns the risk score reads
DayRiskColumns ==
    { <<0, 0, 0, 0>>, <<4, 5, 100000000, 2>>, <<6, 11, 10000000, 3>>,
      <<12, 21, 1000000, 4>> }

DayRows ==
    { [close_price |-> m[1], ma5 |-> m[2], ma20 |-> m[3], ma60 |-> m[4],
       volume |-> v[1], vma5 |-> v[2], change_pct |-> v[3],
       amplitude |-> k[1], turnover_rate |-> k[2], total_amount |-> k[3],
       volatility_20d |-> k[4]] :
         m \in DayMaColumns, v \in DayVolumeColumns, k \in DayRiskColumns }

\* membership rows joined with block_capital_flow (0 in the joined columns
\* when the LEFT JOIN found no flow row)
BlockRows ==
    { [block_type |-> "concept", inflow_ratio |-> 0, ranking |-> 0, continuity_days |-> 0],
      [block_type |-> "industry", inflow_ratio |-> 6000, ranking |-> 1, continuity_days |-> 7],
      [block_type |-> "region", inflow_ratio |-> -12000, ranking |-> 150, continuity_days |-> 0],
      [block_type |-> "concept", inflow_ratio |-> 2000, ranking |-> 50, continuity_days |-> 2],
      [block_type |-> "industry", inflow_ratio |-> -3000, ranking |-> 100, continuity_days |-> 1] }

\* an optional row: fetchone() gives None or a row
Fetched(rows) == {<<>>} \cup {<<r>> : r \in rows}

\* the weights a model is constructed with: the defaults, other weights that
\* sum to 1, and weights that do not
WeightChoices ==
    { ScoringWeights,
      [capital |-> 50, technical |-> 50, fundamental |-> 0, risk |-> 0],
      [capital |-> 0, technical |-> 0, fundamental |-> 0, risk |-> 100],
      [capital |-> 50, technical |-> 50, fundamental |-> 50, risk |-> 50] }

\* total scores _generate_signal is called with: every half point of
\* [0, 100] and the thousandths next to each band edge
BandEdges == {Pt(30), Pt(40), Pt(50), Pt(60), Pt(70), Pt(80), Pt(100)}

TotalScores ==
    {k * 500 : k \in 0..200} \cup {e - 1 : e \in BandEdges} \cup {e + 1 : e \in BandEdges}

\* <<capital_score, technical_score>> pairs _generate_signal is called with
ScorePairs ==
    { <<Pt(50), Pt(50)>>, <<Pt(90), Pt(20)>>, <<Pt(80), Pt(50)>>, <<Pt(50), Pt(80)>>,
      <<Pt(80) + 1, Pt(50)>>, <<Pt(50), Pt(80) + 1>>, <<Pt(100), Pt(100)>> }

\* stock_day_data rows _calculate_risk_score is called with
RiskRows ==
    { [amplitude |-> a, turnover_rate |-> t, total_amount |-> m, volatility_20d |-> v] :
         a \in {0, 4, 5, 6, 7, 8, 10, 11, 12},
         t \in {0, 5, 6, 10, 11, 20, 21},
         m \in {0, 1000000, 10000000, 49999999, 50000000, 100000000},
         v \in {0, 2, 3, 4} }

\* the days a table of the exhaustive family spans
MaxDays == 4

\* the blocks and the variants of the patterned family of tables
MaxBlocks == 22

MaxSeed == 3

\* stock_block_membership.block_type of a block
BlockTypeOf(b) == IF b % 2 = 0 THEN "industry" ELSE "concept"

\* the aggregate row of block b on date d: cell is <<net_inflow, total_amount>>
FlowRow(b, d, cell) ==
    [block_code |-> b, block_type |-> BlockTypeOf(b), trade_date |-> d,
     net_inflow |-> cell[1], total_amount |-> cell[2]]

\* what a (block, date) holds: no row (<<>>), an outflow, a zero day, an
\* inflow, an inflow with total_amount 0
CellChoices == {<<>>, <<-1, 100>>, <<0, 100>>, <<2, 100>>, <<3, 0>>}

\* every table of one block over the dates 1..MaxDays, called on the last date
SmallScenarios ==
    { [table |-> {FlowRow(1, d, c[d]) : d \in {e \in 1..MaxDays : c[e] # <<>>}},
       trade_date |-> MaxDays, days |-> n] :
         c \in [1..MaxDays -> CellChoices], n \in 1..MaxDays }

\* the series [5, -1, 3, 4, 2] of one block, most recent last
ExampleSeries == <<5, -1, 3, 4, 2>>

ExampleTable == {FlowRow(1, d, <<ExampleSeries[d], 100>>) : d \in 1..Len(ExampleSeries)}

ExampleScenarios ==
    { [table |-> ExampleTable, trade_date |-> Len(ExampleSeries), days |-> n] : n \in {3, 5, 7} }

\* a patterned family of tables of up to MaxBlocks blocks: which rows exist
\* and what they hold varies with the block, the date and the variant
PatternPresent(seed, b, d) == (b + 2 * d + seed) % 3 # 0

PatternCell(seed, b, d) ==
    << (((seed + 1) * b + 3 * d + seed) % 7) - 2,
       IF (b + seed) % 5 = 0 THEN 0 ELSE 100 * (1 + (b % 2)) >>

PatternScenarios ==
    { [table |-> UNION { {FlowRow(b, d, PatternCell(seed, b, d)) :
                            d \in {e \in 1..MaxDays : PatternPresent(seed, b, e)}} :
                         b \in 1..nb },
       trade_date |-> MaxDays, days |-> n] :
         nb \in 1..MaxBlocks, seed \in 0..MaxSeed, n \in 1..MaxDays }

\* the longest price list and the largest period calculate_ma is called with
MaxLen == 4

MaxPeriod == 5

\* the prices of the lists
PriceValues == {1, 2, 5}

\* every list over a set of at most n elements
SeqsUpTo(S, n) == UNION {[1..k -> S] : k \in 0..n}

\* the longest stock list of a batch run
MaxStocks == 3

\* what scoring a stock may do: raise, or return one of these totals
Outcomes == {Raises, Scored(Pt(65)), Scored(Pt(70)), Scored(Pt(85))}

\* the parameters of a run: min_score 70 (the default) and a limit, which is any
\* integer of the query string (Query(50) declares no lower bound)
Requests == {[min_score |-> Pt(70), limit |-> n] : n \in {-1, 0, 1, 2, 50}}

----------------------------------------------------------------------------
(* Specifications *)

ScoreIdle == capRow = <<>> /\ dayRow = <<>> /\ blockRow = <<>>
             /\ weights = ScoringWeights /\ report = <<>>

SignalIdle == sig_args = <<>> /\ sig_result = <<>>

RiskIdle == risk_row = <<>> /\ risk_result = <<>>

BlockIdle == flow_table = {} /\ flow_args = <<>> /\ tie_order = "asc" /\ block_result = <<>>

MaIdle == ma_args = <<>> /\ ma_values = <<>>

BatchIdle == /\ driver = "none" /\ stocks = <<>> /\ request = <<>> /\ pre_ok = TRUE
             /\ pc = "idle" /\ idx = 1 /\ attempted = <<>> /\ results = <<>>
             /\ response = <<>>

SeriesIdle == series_args = <<>> /\ series_result = <<>>

CostIdle == cost_args = <<>> /\ cost_result = <<>>

AlertIdle == alert_row = <<>> /\ alert_result = <<>>

ApiIdle == api_args = <<>> /\ api_result = <<>>

OtherIdle == SeriesIdle /\ CostIdle /\ AlertIdle /\ ApiIdle

\* StockScoringModel(db, weights).score_stock(stock_code, trade_date)
InitScore ==
    /\ capRow \in Fetched(CapRows)
    /\ dayRow \in Fetched(DayRows)
    /\ blockRow \in Fetched(BlockRows)
    /\ weights \in WeightChoices
    /\ report = <<>>
    /\ SignalIdle /\ RiskIdle /\ BlockIdle /\ MaIdle /\ BatchIdle /\ OtherIdle

ScoreStock ==
    /\ report = <<>>
    /\ report' = <<score_stock(weights, capRow, dayRow, blockRow)>>
    /\ UNCHANGED <<capRow, dayRow, blockRow, weights, signalVars, riskVars, blockVars, maVars, batchVars, otherVars>>

NextScore == ScoreStock

SpecScore == InitScore /\ [][NextScore]_vars

\* a call of _generate_signal(total_score, capital_score, technical_score)
InitSignal ==
    /\ sig_args \in {[total_score |-> t, capital_score |-> p[1], technical_score |-> p[2]] :
                       t \in TotalScores, p \in ScorePairs}
    /\ sig_result = <<>>
    /\ ScoreIdle /\ RiskIdle /\ BlockIdle /\ MaIdle /\ BatchIdle /\ OtherIdle

GenerateSignal ==
    /\ sig_result = <<>>
    /\ sig_result' = <<generate_signal(sig_args.total_score, sig_args.capital_score,
                                       sig_args.technical_score)>>
    /\ UNCHANGED <<sig_args, scoreVars, riskVars, blockVars, maVars, batchVars, otherVars>>

NextSignal == GenerateSignal

SpecSignal == InitSignal /\ [][NextSignal]_vars

\* a call of _calculate_risk_score whose query fetched risk_row[1]
InitRisk ==
    /\ risk_row \in {<<f>> : f \in Fetched(RiskRows)}
    /\ risk_result = <<>>
    /\ ScoreIdle /\ SignalIdle /\ BlockIdle /\ MaIdle /\ BatchIdle /\ OtherIdle

CalculateRisk ==
    /\ risk_result = <<>>
    /\ risk_result' = <<calculate_risk_score(risk_row[1])>>
    /\ UNCHANGED <<risk_row, scoreVars, signalVars, blockVars, maVars, batchVars, otherVars>>

NextRisk == CalculateRisk

SpecRisk == InitRisk /\ [][NextRisk]_vars

\* CapitalFlowAnalysis(db).calculate_block_capital_flow(trade_date, days)
InitBlock ==
    /\ \E sc \in SmallScenarios \cup ExampleScenarios \cup PatternScenarios :
         /\ flow_table = sc.table
         /\ flow_args = [trade_date |-> sc.trade_date, days |-> sc.days]
    /\ tie_order \in {"asc", "desc"}
    /\ block_result = <<>>
    /\ ScoreIdle /\ SignalIdle /\ RiskIdle /\ MaIdle /\ BatchIdle /\ OtherIdle

CalculateBlockCapitalFlow ==
    /\ block_result = <<>>
    /\ block_result' = <<calculate_block_capital_flow(flow_table, flow_args.trade_date,
                                                      flow_args.days, tie_order)>>
    /\ UNCHANGED <<flow_table, flow_args, tie_order, scoreVars, signalVars, riskVars, maVars, batchVars, otherVars>>

NextBlock == CalculateBlockCapitalFlow

SpecBlock == InitBlock /\ [][NextBlock]_vars

\* a call of TechnicalIndicators.calculate_ma(prices, period)
InitMa ==
    /\ ma_args \in {[prices |-> ps, period |-> n] :
                      ps \in SeqsUpTo(PriceValues, MaxLen), n \in 0..MaxPeriod}
    /\ ma_values = <<>>
    /\ ScoreIdle /\ SignalIdle /\ RiskIdle /\ BlockIdle /\ BatchIdle /\ OtherIdle

CalculateMa ==
    /\ ma_values = <<>>
    /\ ma_values' = <<calculate_ma(ma_args.prices, ma_args.period)>>
    /\ UNCHANGED <<ma_args, scoreVars, signalVars, riskVars, blockVars, batchVars, otherVars>>

NextMa == CalculateMa

SpecMa == InitMa /\ [][NextMa]_vars

\* a batch scoring run
InitBatch ==
    /\ driver \in {"scheduler", "top_stocks", "top_scoring"}
    /\ stocks \in SeqsUpTo(Outcomes, MaxStocks)
    /\ request \in Requests
    /\ pre_ok \in BOOLEAN
    /\ pc = "start" /\ idx = 1 /\ attempted = <<>> /\ results = <<>> /\ response = <<>>
    /\ ScoreIdle /\ SignalIdle /\ RiskIdle /\ BlockIdle /\ MaIdle /\ OtherIdle

NextBatch ==
    \/ BatchStart
    \/ ScoreReturns
    \/ ScoreRaises
    \/ BatchFinish

SpecBatch == InitBatch /\ [][NextBatch]_vars

\* the run is sequential code: it takes its next step as long as it has one
SpecBatchFair == SpecBatch /\ WF_vars(NextBatch)

----------------------------------------------------------------------------
(* Claims about the scoring model *)

InRange(score) == 0 <= score /\ score <= Pt(100)

ValidWeights(w) ==
    /\ w.capital >= 0 /\ w.technical >= 0 /\ w.fundamental >= 0 /\ w.risk >= 0
    /\ w.capital + w.technical + w.fundamental + w.risk = 100

\* C1: every sub-score score_stock reports lies in [0,100], for present and
\* absent rows alike; and when the weights are non-negative and sum to 1,
\* the total is the weighted sum of the sub-scores and lies in [0,100].
C1_ScoresInRange ==
    report # <<>> =>
      LET sc == report[1].scores
          w == report[1].weights
      IN /\ InRange(sc.capital) /\ InRange(sc.technical)
         /\ InRange(sc.fundamental) /\ InRange(sc.risk)
         /\ ValidWeights(w) =>
              /\ sc.total * 100 = sc.capital * w.capital + sc.technical * w.technical
                                    + sc.fundamental * w.fundamental + sc.risk * w.risk
              /\ InRange(sc.total)

\* a report under the default weights whose capital terms exceed 100 before
\* the clamp and whose fundamental terms are below 0 before it
C1_Witness ==
    /\ report # <<>> /\ capRow # <<>> /\ blockRow # <<>>
    /\ weights = ScoringWeights
    /\ capital_terms(capRow[1]) > Pt(100)
    /\ report[1].scores.capital = Pt(100)
    /\ report[1].scores.fundamental = 0
    /\ report[1].scores.total > 0

\* the band of the claim's table that holds t
BandOf(t) ==
    IF t < Pt(30) THEN "strong_sell"
    ELSE IF t < Pt(40) THEN "sell"
    ELSE IF t < Pt(50) THEN "reduce"
    ELSE IF t < Pt(60) THEN "hold"
    ELSE IF t < Pt(70) THEN "watch"
    ELSE IF t < Pt(80) THEN "buy"
    ELSE "strong_buy"

\* C2: for 0 <= t < 100, _generate_signal returns the type of the half-open
\* band holding t (an edge 30, 40, ..., 80 belongs to the upper band), and
\* exactly one band of signal_types matches t.
C2_BandOfTotal ==
    (sig_result # <<>> /\ 0 <= sig_args.total_score /\ sig_args.total_score < Pt(100)) =>
      /\ sig_result[1].type = BandOf(sig_args.total_score)
      /\ Cardinality({i \in 1..Len(signal_types) :
                        in_band(sig_args.total_score, signal_types[i])}) = 1

\* the call with total_score exactly 70 returned buy
C2_Witness ==
    /\ sig_result # <<>>
    /\ sig_args.total_score = Pt(70)
    /\ sig_result[1].type = "buy"

\* C3 (as claimed): a report whose four sub-scores are 100 under the default
\* weights, so that total_score is exactly 100, has signal strong_buy with
\* strength 3.
C3_StrongBuyAt100 ==
    (/\ report # <<>>
     /\ weights = ScoringWeights
     /\ report[1].scores.capital = Pt(100) /\ report[1].scores.technical = Pt(100)
     /\ report[1].scores.fundamental = Pt(100) /\ report[1].scores.risk = Pt(100)) =>
      /\ report[1].scores.total = Pt(100)
      /\ report[1].signal.type = "strong_buy"
      /\ report[1].signal.strength = 3

\* the base strength of the claim's table
BaseOf(type) ==
    CASE type \in {"strong_buy", "strong_sell"} -> 3
      [] type \in {"buy", "sell"} -> 2
      [] type \in {"watch", "reduce"} -> 1
      [] type = "hold" -> 0

\* C4: the strength is the base strength of the returned type, less 1 (not
\* below 0) exactly when |capital_score - technical_score| > 30; it is in
\* 0..3, and a hold signal has strength 0.
C4_Strength ==
    sig_result # <<>> =>
      LET sig == sig_result[1]
          diff == Abs(sig_args.capital_score - sig_args.technical_score)
      IN /\ sig.strength = (IF diff > Pt(30) THEN Max(0, BaseOf(sig.type) - 1)
                            ELSE BaseOf(sig.type))
         /\ sig.strength \in 0..3
         /\ sig.type = "hold" => sig.strength = 0

\* the calls of the claim: total 55 with capital 90 and technical 20 gives
\* hold with strength 0; a difference of exactly 30 leaves a buy at 2
C4_Witness ==
    /\ sig_result # <<>>
    /\ \/ /\ sig_args = [total_score |-> Pt(55), capital_score |-> Pt(90),
                         technical_score |-> Pt(20)]
          /\ sig_result[1].type = "hold" /\ sig_result[1].strength = 0
       \/ /\ sig_args = [total_score |-> Pt(75), capital_score |-> Pt(80),
                         technical_score |-> Pt(50)]
          /\ sig_result[1].type = "buy" /\ sig_result[1].strength = 2

\* the risk score of the fetched row with its amplitude replaced by a
RiskAtAmplitude(a) ==
    calculate_risk_score(<<[risk_row[1][1] EXCEPT !.amplitude = a]>>)

AmplitudeValues == {r.amplitude : r \in RiskRows}

\* C5: with the other three columns fixed, the risk score strictly decreases
\* over the amplitudes 4, 6, 8, 12, and the score the call returned is
\* non-increasing in amplitude.
C5_RiskMonotone ==
    (risk_result # <<>> /\ risk_row[1] # <<>>) =>
      /\ RiskAtAmplitude(4) > RiskAtAmplitude(6)
      /\ RiskAtAmplitude(6) > RiskAtAmplitude(8)
      /\ RiskAtAmplitude(8) > RiskAtAmplitude(12)
      /\ \A a \in AmplitudeValues :
           /\ a >= risk_row[1][1].amplitude => RiskAtAmplitude(a) <= risk_result[1]
           /\ a <= risk_row[1][1].amplitude => RiskAtAmplitude(a) >= risk_result[1]

\* the call on the row with every deduction at its largest returned 10
C5_Witness ==
    /\ risk_result = <<Pt(10)>>
    /\ risk_row[1] # <<>>
    /\ risk_row[1][1].amplitude = 12

\* C8: a sub-score whose row is absent is 50 whatever the other rows are;
\* with every row absent and the default weights the total is 50 and the
\* signal is hold with strength 0.
C8_NeutralWhenAbsent ==
    report # <<>> =>
      LET r == report[1]
      IN /\ capRow = <<>> => r.scores.capital = Pt(50)
         /\ dayRow = <<>> => r.scores.technical = Pt(50) /\ r.scores.risk = Pt(50)
         /\ blockRow = <<>> => r.scores.fundamental = Pt(50)
         /\ (capRow = <<>> /\ dayRow = <<>> /\ blockRow = <<>> /\ weights = ScoringWeights) =>
              /\ r.scores.total = Pt(50)
              /\ r.signal.type = "hold"
              /\ r.signal.strength = 0

\* score_stock returned with no row in any table
C8_Witness ==
    /\ report # <<>>
    /\ capRow = <<>> /\ dayRow = <<>> /\ blockRow = <<>>
    /\ weights = ScoringWeights
    /\ report[1].signal.type = "hold"

----------------------------------------------------------------------------
(* Claims about calculate_block_capital_flow *)

\* the rows of block b in the window of the call
WindowRows(b) ==
    {r \in flow_table : /\ r.block_code = b
                        /\ flow_args.trade_date - (flow_args.days - 1) <= r.trade_date
                        /\ r.trade_date <= flow_args.trade_date}

WindowBlocks == {r.block_code : r \in {q \in flow_table : q \in WindowRows(q.block_code)}}

\* the rows of a set that have fewer than k rows of the set after them
MostRecent(rows, k) ==
    {r \in rows : Cardinality({q \in rows : q.trade_date > r.trade_date}) < k}

\* C6: continuity_days of a block is the length k of the longest suffix of
\* its date-ascending rows with net_inflow > 0: the k most recent rows are
\* all > 0 and, unless they are all the rows, the row before them is <= 0.
C6_Continuity ==
    block_result # <<>> =>
      \A i \in 1..Len(block_result[1]) :
        LET e == block_result[1][i]
            rows == WindowRows(e.block_code)
            k == e.continuity_days
        IN /\ k \in 0..Cardinality(rows)
           /\ \A r \in MostRecent(rows, k) : r.net_inflow > 0
           /\ k < Cardinality(rows) =>
                \A r \in MostRecent(rows, k + 1) \ MostRecent(rows, k) : r.net_inflow <= 0

\* the call on the series [5, -1, 3, 4, 2], whose rows arrive ordered by
\* net_inflow (5, 4, 3, 2, -1), returned continuity_days 3
C6_Witness ==
    /\ block_result # <<>>
    /\ Cardinality(flow_table) = Len(ExampleSeries)
    /\ \A d \in 1..Len(ExampleSeries) :
         \E r \in flow_table : r.trade_date = d /\ r.net_inflow = ExampleSeries[d]
    /\ flow_args.days = 7
    /\ Len(block_result[1]) = 1
    /\ block_result[1][1].continuity_days = 3

RECURSIVE SumRatios(_)
SumRatios(rows) ==
    IF rows = {} THEN 0
    ELSE LET r == CHOOSE q \in rows : TRUE
         IN (IF r.total_amount > 0 THEN (r.net_inflow * 100000) \div r.total_amount ELSE 0)
              + SumRatios(rows \ {r})

\* the mean inflow_ratio of block b over the window, as a fraction
WindowMean(b) == [sum |-> SumRatios(WindowRows(b)), n |-> Cardinality(WindowRows(b))]

\* C7: the result holds one entry per block of the window, at most 20, each
\* with the mean of the block's per-day inflow_ratio, in non-increasing order
\* of that mean, and no block left out has a higher mean than a returned one.
C7_SortedTop20 ==
    block_result # <<>> =>
      LET res == block_result[1]
          returned == {res[i].block_code : i \in 1..Len(res)}
      IN /\ Len(res) = Min(Cardinality(WindowBlocks), 20)
         /\ returned \subseteq WindowBlocks
         /\ Cardinality(returned) = Len(res)
         /\ \A i \in 1..Len(res) : res[i].avg_inflow_ratio = WindowMean(res[i].block_code)
         /\ \A i, j \in 1..Len(res) :
              i < j => ~FracGreater(res[j].avg_inflow_ratio, res[i].avg_inflow_ratio)
         /\ \A b \in WindowBlocks \ returned : \A i \in 1..Len(res) :
              ~FracGreater(WindowMean(b), res[i].avg_inflow_ratio)

\* a call on more than 20 blocks returned 20 entries of differing means and
\* left out a block of a lower mean than every returned one
C7_Witness ==
    /\ block_result # <<>>
    /\ Cardinality(WindowBlocks) > 20
    /\ Len(block_result[1]) = 20
    /\ FracGreater(block_result[1][1].avg_inflow_ratio, block_result[1][20].avg_inflow_ratio)
    /\ \E b \in WindowBlocks :
         FracGreater(block_result[1][20].avg_inflow_ratio, WindowMean(b))

----------------------------------------------------------------------------
(* Claims about the batch scoring runs *)

\* the positions of the iterated list whose scoring returns and whose report
\* the run keeps
Kept ==
    {i \in 1..Len(batch_list(driver, stocks)) :
       /\ ~batch_list(driver, stocks)[i].raises
       /\ driver = "scheduler" \/ batch_list(driver, stocks)[i].total >= request.min_score}

\* C9: once a batch run is in its loop it reaches its end; at the end every
\* stock of the list has been attempted, in order, whichever of them raised,
\* and the collected results are exactly the stocks whose scoring returned
\* (and, for the endpoints, whose total reached min_score).
C9_BatchIsolation ==
    /\ [](pc = "done" =>
            /\ attempted = [i \in 1..Len(batch_list(driver, stocks)) |-> i]
            /\ {results[k].stock : k \in 1..Len(results)} = Kept
            /\ Len(results) = Cardinality(Kept))
    /\ [](pc = "loop" => <>(pc = "done"))

\* a finished run whose first stock raised and whose last stock was scored
\* and collected
C9_Witness ==
    /\ pc = "done"
    /\ Len(stocks) = MaxStocks
    /\ stocks[1].raises
    /\ ~stocks[MaxStocks].raises
    /\ \E k \in 1..Len(results) : results[k].stock = MaxStocks

----------------------------------------------------------------------------
(* Claims about calculate_ma *)

\* series[a] + ... + series[b], positions counted from 0
RECURSIVE RangeSum(_, _, _)
RangeSum(series, a, b) == IF a > b THEN 0 ELSE series[b + 1] + RangeSum(series, a, b - 1)

\* C10: for period >= 1, calculate_ma returns as many values as the series
\* has; position i (from 0) is undefined when i < period - 1 and is the mean
\* of series[i - period + 1 .. i] otherwise; all are undefined when the series
\* is shorter than the period; on a constant series of value v every defined
\* position is v.
C10_MovingAverage ==
    (ma_values # <<>> /\ ma_args.period >= 1) =>
      LET series == ma_args.prices
          period == ma_args.period
          out == ma_values[1]
      IN /\ Len(out) = Len(series)
         /\ \A i \in 0..(Len(series) - 1) :
              IF i < period - 1
                THEN ~out[i + 1].defined
                ELSE /\ out[i + 1].defined
                     /\ out[i + 1].n = period
                     /\ out[i + 1].sum = RangeSum(series, i - period + 1, i)
         /\ Len(series) < period => \A k \in 1..Len(out) : ~out[k].defined
         /\ \A v \in PriceValues :
              (\A k \in 1..Len(series) : series[k] = v) =>
                \A k \in 1..Len(out) : out[k].defined => out[k].sum = v * out[k].n

\* a call with period 2 on a list of 3 different prices: the first value is
\* undefined, the others are means of two prices
C10_Witness ==
    /\ ma_values # <<>>
    /\ ma_args = [prices |-> <<1, 2, 5>>, period |-> 2]
    /\ ma_values[1] = <<NaN, Mean(3, 2), Mean(7, 2)>>

----------------------------------------------------------------------------
(* Series utilities: TechnicalIndicators (indicators.py) and DataProcessor *)
(* (data_processor.py).  A float the code computes by division is kept as   *)
(* the exact fraction sum/n, in the record shape of Mean and NaN above.     *)

\* a float value num/den
Ratio(num, den) == [defined |-> TRUE, sum |-> num, n |-> den]

\* whether two float values are the same number (nan equals nothing)
SameNumber(a, b) == a.defined /\ b.defined /\ a.sum * b.n = b.sum * a.n

\* a slip: alpha = 2 / period
ema_step_alpha_period(period, price, prev) ==
    Ratio(2 * price * prev.n + (period - 2) * prev.sum, period * prev.n)

\* ema = alpha * price + (1 - alpha) * ema_values[-1], alpha = 2 / (period + 1)
ema_step(period, price, prev) ==
    Ratio(2 * price * prev.n + (period - 1) * prev.sum, (period + 1) * prev.n)

\* calculate_ema(prices, period), for period >= 1
calculate_ema(prices, period) ==
    IF Len(prices) < period
    THEN [i \in 1..Len(prices) |-> NaN]
    ELSE LET ema_values[i \in 1..Len(prices)] ==
                 IF i = 1 THEN Ratio(prices[1], 1)
                 ELSE ema_step(period, prices[i], ema_values[i - 1])
         IN  [i \in 1..Len(prices) |-> ema_values[i]]

\* np.diff(prices)
np_diff(prices) == [i \in 1..(Len(prices) - 1) |-> prices[i + 1] - prices[i]]

\* seed[seed >= 0].sum()
sum_gains(seed) == SeqSum([i \in 1..Len(seed) |-> IF seed[i] >= 0 THEN seed[i] ELSE 0])

\* -seed[seed < 0].sum()
sum_losses(seed) == SeqSum([i \in 1..Len(seed) |-> IF seed[i] < 0 THEN -seed[i] ELSE 0])

\* the averages up = avg.up / avg.den and down = avg.down / avg.den
\* up = (up * (period - 1) + upval) / period, and the same for down
smooth(avg, period, delta) ==
    LET upval == IF delta > 0 THEN delta ELSE 0
        downval == IF delta > 0 THEN 0 ELSE -delta
    IN  [up |-> avg.up * (period - 1) + upval * avg.den,
         down |-> avg.down * (period - 1) + downval * avg.den,
         den |-> avg.den * period]

\* rs = 0 if down == 0 else up / down; 100. - 100. / (1. + rs)
\* with rs = 0 that is 100 - 100/1 = 0; otherwise 100 - 100*down/(down + up)
rsi_value(avg) ==
    IF avg.down = 0
    THEN Ratio(100 * 1 - 100, 1)
    ELSE Ratio(100 * avg.up, avg.up + avg.down)

\* calculate_rsi(prices, period), for period >= 1
calculate_rsi(prices, period) ==
    IF Len(prices) < period + 1
    THEN [i \in 1..Len(prices) |-> NaN]
    ELSE LET deltas == np_diff(prices)
             seed == PySlice(deltas, 0, period + 1)
             \* avg[0] is the seed's averages, avg[k] the averages at position period+k-1
             avg[k \in 0..(Len(prices) - period)] ==
                 IF k = 0
                 THEN [up |-> sum_gains(seed), down |-> sum_losses(seed), den |-> period]
                 ELSE smooth(avg[k - 1], period, deltas[period + k - 1])
         IN  [j \in 1..Len(prices) |->
                IF j - 1 < period THEN rsi_value(avg[0]) ELSE rsi_value(avg[j - period])]

\* tr = max(hl, hc, lc) of bar i (from 1), against the close of the bar before
true_range(bars, i) ==
    LET hl == bars[i].high - bars[i].low
        hc == Abs(bars[i].high - bars[i - 1].close)
        lc == Abs(bars[i].low - bars[i - 1].close)
    IN  Max(hl, Max(hc, lc))

\* if len(highs) < period
atr_too_short(n, period) == n < period

\* calculate_atr(highs, lows, closes, period), for period >= 1; bars[i] holds
\* highs[i], lows[i] and closes[i]
calculate_atr(bars, period) ==
    IF atr_too_short(Len(bars), period)
    THEN [i \in 1..Len(bars) |-> NaN]
    ELSE LET tr_values == [i \in 1..(Len(bars) - 1) |-> true_range(bars, i + 1)]
             first == np_mean(PySlice(tr_values, 0, period))
             \* rest[k] is the value appended by the k-th turn of the loop
             rest[k \in 0..Max(0, Len(tr_values) - period)] ==
                 IF k = 0 THEN first
                 ELSE Ratio(rest[k - 1].sum * (period - 1) + tr_values[period + k] * rest[k - 1].n,
                            rest[k - 1].n * period)
         IN  [i \in 1..period |-> NaN]
               \o [k \in 1..(1 + Max(0, Len(tr_values) - period)) |-> rest[k - 1]]

\* np.sum(prices * volumes): numpy multiplies element by element, stretches an
\* array of one element to the other's length, and raises on other lengths
product_sum(prices, volumes) ==
    IF Len(prices) = Len(volumes)
    THEN <<SeqSum([i \in 1..Len(prices) |-> prices[i] * volumes[i]])>>
    ELSE IF Len(prices) = 1 THEN <<prices[1] * SeqSum(volumes)>>
    ELSE IF Len(volumes) = 1 THEN <<SeqSum(prices) * volumes[1]>>
    ELSE <<>>

\* what a call answers: a float, or an exception
Returns(x) == [raised |-> FALSE, value |-> x]

Raised == [raised |-> TRUE, value |-> NaN]

\* without the `total_volume == 0` test: numpy's 0/0 is nan
calculate_vwap_no_volume_test(prices, volumes) ==
    IF Len(prices) = 0 \/ Len(volumes) = 0 THEN Returns(Ratio(0, 1))
    ELSE IF product_sum(prices, volumes) = <<>> THEN Raised
    ELSE IF SeqSum(volumes) = 0 THEN Returns(NaN)
    ELSE Returns(Ratio(product_sum(prices, volumes)[1], SeqSum(volumes)))

\* DataProcessor.calculate_vwap(prices, volumes)
calculate_vwap(prices, volumes) ==
    IF Len(prices) = 0 \/ Len(volumes) = 0 THEN Returns(Ratio(0, 1))
    ELSE LET total_value == product_sum(prices, volumes)
             total_volume == SeqSum(volumes)
         IN  IF total_value = <<>> THEN Raised
             ELSE IF total_volume = 0 THEN Returns(Ratio(0, 1))
             ELSE Returns(Ratio(total_value[1], total_volume))

\* the calls of calculate_ema: a price list and a period >= 1
EmaCalls == {[fn |-> "ema", prices |-> ps, period |-> n] :
               ps \in SeqsUpTo(PriceValues, MaxLen), n \in 1..MaxPeriod}

\* the calls of calculate_rsi
RsiCalls == {[fn |-> "rsi", prices |-> ps, period |-> n] :
               ps \in SeqsUpTo(PriceValues, MaxLen), n \in 1..MaxPeriod}

\* daily bars (high, low, close) with low <= close <= high
BarValues == {[high |-> 3, low |-> 1, close |-> 2], [high |-> 5, low |-> 2, close |-> 4],
              [high |-> 6, low |-> 5, close |-> 5]}

\* the calls of calculate_atr, with highs, lows and closes of one length
AtrCalls == {[fn |-> "atr", bars |-> bs, period |-> n] :
               bs \in SeqsUpTo(BarValues, MaxLen), n \in 1..MaxPeriod}

\* the volume at a price level
VolumeValues == {0, 1, 3}

\* the price levels of a snapshot
LevelPrices == {10, 20}

\* the calls of calculate_vwap
VwapCalls == {[fn |-> "vwap", prices |-> ps, volumes |-> vs] :
                ps \in SeqsUpTo(LevelPrices, MaxLen), vs \in SeqsUpTo(VolumeValues, MaxLen)}

SeriesCalls == EmaCalls \cup RsiCalls \cup AtrCalls \cup VwapCalls

\* a call of one of the series utilities
InitSeries ==
    /\ series_args \in SeriesCalls
    /\ series_result = <<>>
    /\ ScoreIdle /\ SignalIdle /\ RiskIdle /\ BlockIdle /\ MaIdle /\ BatchIdle
    /\ CostIdle /\ AlertIdle /\ ApiIdle

CalculateEma ==
    /\ series_args.fn = "ema"
    /\ series_result = <<>>
    /\ series_result' = <<calculate_ema(series_args.prices, series_args.period)>>
    /\ UNCHANGED <<series_args, scoreVars, signalVars, riskVars, blockVars, maVars, batchVars,
                   costVars, alertVars, apiVars>>

CalculateRsi ==
    /\ series_args.fn = "rsi"
    /\ series_result = <<>>
    /\ series_result' = <<calculate_rsi(series_args.prices, series_args.period)>>
    /\ UNCHANGED <<series_args, scoreVars, signalVars, riskVars, blockVars, maVars, batchVars,
                   costVars, alertVars, apiVars>>

CalculateAtr ==
    /\ series_args.fn = "atr"
    /\ series_result = <<>>
    /\ series_result' = <<calculate_atr(series_args.bars, series_args.period)>>
    /\ UNCHANGED <<series_args, scoreVars, signalVars, riskVars, blockVars, maVars, batchVars,
                   costVars, alertVars, apiVars>>

CalculateVwap ==
    /\ series_args.fn = "vwap"
    /\ series_result = <<>>
    /\ series_result' = <<calculate_vwap(series_args.prices, series_args.volumes)>>
    /\ UNCHANGED <<series_args, scoreVars, signalVars, riskVars, blockVars, maVars, batchVars,
                   costVars, alertVars, apiVars>>

NextSeries ==
    \/ CalculateEma
    \/ CalculateRsi
    \/ CalculateAtr
    \/ CalculateVwap

SpecSeries == InitSeries /\ [][NextSeries]_vars

----------------------------------------------------------------------------
(* Claims about the series utilities *)

\* the call of series utility f has returned
Returned(f) == series_args.fn = f /\ series_result # <<>>

\* the outputs start at prices[0] and follow ema[i] = a*x[i] + (1-a)*ema[i-1], a = 2/(period+1)
EmaRecurrence(prices, period, out) ==
    /\ Len(out) = Len(prices)
    /\ \A i \in 1..Len(out) : out[i].defined
    /\ SameNumber(out[1], Ratio(prices[1], 1))
    /\ \A i \in 2..Len(out) :
         \* (period+1) * ema[i] = 2 * x[i] + (period-1) * ema[i-1]
         (period + 1) * out[i].sum * out[i - 1].n
           = (2 * prices[i] * out[i - 1].n + (period - 1) * out[i - 1].sum) * out[i].n

\* C11 (as claimed): for every non-empty series and every period >= 1, calculate_ema
\* returns prices[0] first and then the recurrence, with no undefined position.
C11_EmaNoUndefinedPrefix ==
    (Returned("ema") /\ series_args.prices # <<>>)
      => EmaRecurrence(series_args.prices, series_args.period, series_result[1])

\* C11 (amended): when len(series) >= period >= 1 the first output is series[0], every
\* later output follows the recurrence and none is undefined; when len(series) < period
\* the output has the length of the series and every position is undefined.
C11_EmaFromSeed ==
    Returned("ema") =>
      LET prices == series_args.prices
          period == series_args.period
          out == series_result[1]
      IN  IF Len(prices) >= period
          THEN prices # <<>> => EmaRecurrence(prices, period, out)
          ELSE Len(out) = Len(prices) /\ \A i \in 1..Len(out) : ~out[i].defined

\* a call on three prices that are not all equal, with a period the series is long enough for
C11_Witness ==
    /\ Returned("ema")
    /\ Len(series_args.prices) = 3
    /\ series_args.period = 2
    /\ series_args.prices[1] # series_args.prices[2]
    /\ ~SameNumber(series_result[1][2], series_result[1][1])
    /\ series_result[1][3].defined

\* no price fell among the changes that the averages at position j (from 1) have taken in:
\* the seed deltas[:period+1] and the deltas up to position j
NoLossAt(prices, period, j) ==
    \A d \in 1..Min(Len(prices) - 1, Max(period + 1, j - 1)) : prices[d + 1] >= prices[d]

\* C12 (as claimed): every RSI value lies in [0,100], and a position whose smoothed average
\* loss is 0 (no fall so far, as on a strictly increasing series) has the value 100.
C12_RsiNoLossIs100 ==
    (Returned("rsi") /\ Len(series_args.prices) >= series_args.period + 1) =>
      \A j \in 1..Len(series_result[1]) :
        LET rsi == series_result[1][j]
        IN  /\ rsi.defined /\ rsi.sum >= 0 /\ rsi.sum <= 100 * rsi.n
            /\ NoLossAt(series_args.prices, series_args.period, j)
                 => SameNumber(rsi, Ratio(100, 1))

\* C13 (as claimed): for every period >= 1 and every number n >= 0 of bars, calculate_atr
\* returns n values, of which the first `period` (all of them when n < period) are undefined.
C13_AtrSameLength ==
    Returned("atr") =>
      /\ Len(series_result[1]) = Len(series_args.bars)
      /\ \A i \in 1..Min(series_args.period, Len(series_result[1])) :
           ~series_result[1][i].defined

\* prices and volumes are parallel arrays, or one of them is empty
Paired(prices, volumes) ==
    Len(prices) = Len(volumes) \/ prices = <<>> \/ volumes = <<>>

\* C14: on parallel arrays calculate_vwap never raises; it returns exactly 0 when either
\* input is empty or the volumes sum to 0, and sum(price_i*volume_i)/sum(volume_i) otherwise.
C14_Vwap ==
    (Returned("vwap") /\ Paired(series_args.prices, series_args.volumes)) =>
      LET prices == series_args.prices
          volumes == series_args.volumes
          n == Len(volumes)
          answer == series_result[1]
      IN  /\ ~answer.raised
          /\ IF prices = <<>> \/ volumes = <<>> \/ RangeSum(volumes, 0, n - 1) = 0
             THEN answer.value = Ratio(0, 1)
             ELSE /\ answer.value.defined
                  /\ answer.value.sum * RangeSum(volumes, 0, n - 1)
                       = RangeSum([i \in 1..n |-> prices[i] * volumes[i]], 0, n - 1)
                           * answer.value.n

\* vwap([10,20],[0,0]) has answered 0
C14_Witness ==
    /\ Returned("vwap")
    /\ series_args.prices = <<10, 20>>
    /\ series_args.volumes = <<0, 0>>
    /\ series_result[1] = Returns(Ratio(0, 1))

----------------------------------------------------------------------------
(* Holding-cost analysis: HoldingCostAnalysis (cost_analysis_service.py).   *)
(* A cost history is a list of integers counted in 1/unit: with unit 100    *)
(* the value 3 is the cost 0.03, with unit 1 the value 12 is the cost 12.0.  *)

\* np.arange(len(cost_history))
np_arange(n) == [i \in 1..n |-> i - 1]

\* np.polyfit(x, y, 1)[0]: the least-squares slope, (n*Sxy - Sx*Sy) / (n*Sxx - Sx*Sx)
polyfit_slope(x, y) ==
    LET n == Len(x)
        Sx == SeqSum(x)
        Sy == SeqSum(y)
        Sxy == SeqSum([i \in 1..n |-> x[i] * y[i]])
        Sxx == SeqSum([i \in 1..n |-> x[i] * x[i]])
    IN  Ratio(n * Sxy - Sx * Sy, n * Sxx - Sx * Sx)

\* _calculate_r_squared(x, y): ssreg / sstot, or 0 when sstot == 0.
\* yhat[i] - ybar = slope * (x[i] - mean(x)), since the fitted line passes through
\* the means; both sums are kept over the common denominator n*n.
calculate_r_squared(x, y) ==
    IF Len(x) < 2 THEN Ratio(0, 1)
    ELSE LET n == Len(x)
             slope == polyfit_slope(x, y)
             Sx == SeqSum(x)
             Sy == SeqSum(y)
             \* ssreg * n*n * slope.n^2
             ssreg == SeqSum([i \in 1..n |-> (slope.sum * (n * x[i] - Sx)) * (slope.sum * (n * x[i] - Sx))])
             \* sstot * n*n
             sstot == SeqSum([i \in 1..n |-> (n * y[i] - Sy) * (n * y[i] - Sy)])
         IN  IF sstot # 0 THEN Ratio(ssreg, slope.n * slope.n * sstot) ELSE Ratio(0, 1)

\* r_squared > 0.5
trend_is_clear(r_squared) == 2 * r_squared.sum > r_squared.n

\* a slip: slope > 0
slope_rising_any(slope, unit) == slope.sum > 0

\* slope > 0.01, for a slope counted in 1/unit
slope_rising(slope, unit) == 100 * slope.sum > unit * slope.n

\* slope < -0.01
slope_falling(slope, unit) == 100 * slope.sum < -(unit * slope.n)

\* _determine_cost_trend(cost_history)
determine_cost_trend(cost_history, unit) ==
    IF Len(cost_history) < 2 THEN "stable"
    ELSE LET x == np_arange(Len(cost_history))
             y == cost_history
             slope == polyfit_slope(x, y)
             r_squared == calculate_r_squared(x, y)
         IN  IF trend_is_clear(r_squared) /\ slope_rising(slope, unit) THEN "rising"
             ELSE IF trend_is_clear(r_squared) /\ slope_falling(slope, unit) THEN "falling"
             ELSE "stable"

RECURSIVE GCD(_, _)
GCD(a, b) == IF b = 0 THEN a ELSE GCD(b, a % b)

\* the float num/den (den > 0) in lowest terms, so that equal floats are equal records
Frac(num, den) ==
    LET g == GCD(Abs(num), den)
    IN  Ratio(num \div g, den \div g)

FAdd(a, b) == Frac(a.sum * b.n + b.sum * a.n, a.n * b.n)

\* abs(a - b)
FDist(a, b) == Frac(Abs(a.sum * b.n - b.sum * a.n), a.n * b.n)

RECURSIVE FSum(_)
FSum(s) == IF s = <<>> THEN Ratio(0, 1) ELSE FAdd(s[1], FSum(Tail(s)))

\* np.mean of a non-empty list of floats
FMean(s) == LET t == FSum(s) IN Frac(t.sum, t.n * Len(s))

\* the elements of s at the positions in P, in order
RECURSIVE Pick(_, _)
Pick(s, P) ==
    IF P = {} THEN <<>>
    ELSE LET i == CHOOSE i \in P : \A j \in P : i <= j
         IN  <<s[i]>> \o Pick(s, P \ {i})

\* the positions that labels puts in cluster c
Members(labels, c) == {j \in DOMAIN labels : labels[j] = c}

\* kmeans.cluster_centers_
cluster_centers(X, labels, n_clusters) ==
    [c \in 0..(n_clusters - 1) |-> FMean(Pick(X, Members(labels, c)))]

\* KMeans(n_clusters, random_state=42).fit_predict(X): the labels of a clustering
\* KMeans has converged to.  Every cluster has a point, its centre is the mean of
\* its points, and every point is in a cluster whose centre is nearest to it.
KMeansOutcomes(X, n_clusters) ==
    {labels \in [1..Len(X) -> 0..(n_clusters - 1)] :
        /\ \A c \in 0..(n_clusters - 1) : Members(labels, c) # {}
        /\ LET centers == cluster_centers(X, labels, n_clusters)
           IN  \A i \in 1..Len(X) : \A c \in 0..(n_clusters - 1) :
                 ~FracGreater(FDist(X[i], centers[labels[i]]), FDist(X[i], centers[c]))}

\* a slip: the highest centre
support_cluster_argmax(centers) ==
    CHOOSE c \in DOMAIN centers :
        \A d \in DOMAIN centers : /\ ~FracGreater(centers[d], centers[c])
                                  /\ (centers[d] = centers[c] => c <= d)

\* np.argmin(kmeans.cluster_centers_): the first index of the lowest centre
support_cluster(centers) ==
    CHOOSE c \in DOMAIN centers :
        \A d \in DOMAIN centers : /\ ~FracGreater(centers[c], centers[d])
                                  /\ (centers[d] = centers[c] => c <= d)

\* d.get('total_buy_amount', 1)
get_total_buy_amount(d) ==
    IF "total_buy_amount" \in DOMAIN d THEN d.total_buy_amount ELSE 1

\* n_clusters = min(3, len(set(buy_costs)))
n_clusters_of(cost_history) ==
    Min(3, Cardinality({cost_history[i].buy_vwap : i \in 1..Len(cost_history)}))

\* a daily analysis that failed is {} plus its date: it has no 'buy_vwap'
HasCosts(d) == "buy_vwap" \in DOMAIN d

\* the level of cluster i
cost_level(X, volumes, labels, centers, i) ==
    LET members == Members(labels, i)
        cluster_volumes == Pick(volumes, members)
    IN  [price_level |-> FMean(Pick(X, members)),
         frequency_weight |-> Frac(Cardinality(members), Len(X)),
         volume_weight |-> IF SeqSum(volumes) > 0
                           THEN Frac(SeqSum(cluster_volumes), SeqSum(volumes))
                           ELSE Ratio(0, 1),
         sample_count |-> Cardinality(members),
         type |-> IF i = support_cluster(centers) THEN "support" ELSE "resistance"]

\* _find_cost_levels(cost_history), where KMeans answers labels
find_cost_levels(cost_history, labels) ==
    IF cost_history = <<>> THEN Returns(<<>>)
    ELSE IF \E i \in 1..Len(cost_history) : ~HasCosts(cost_history[i])
    THEN Raised      \* KeyError: 'buy_vwap', before the try
    ELSE IF Len(cost_history) < 3 THEN Returns(<<>>)
    ELSE LET X == [i \in 1..Len(cost_history) |-> cost_history[i].buy_vwap]
             volumes == [i \in 1..Len(cost_history) |-> get_total_buy_amount(cost_history[i])]
             n_clusters == n_clusters_of(cost_history)
             centers == cluster_centers(X, labels, n_clusters)
             levels == [k \in 1..n_clusters |-> cost_level(X, volumes, labels, centers, k - 1)]
         IN  Returns(StableSort("price_level_asc", levels))

\* the label lists KMeans may answer inside _find_cost_levels; <<>> where it is not called
clusterings(cost_history) ==
    IF Len(cost_history) >= 3 /\ \A i \in 1..Len(cost_history) : HasCosts(cost_history[i])
    THEN KMeansOutcomes([i \in 1..Len(cost_history) |-> cost_history[i].buy_vwap],
                        n_clusters_of(cost_history))
    ELSE {<<>>}

\* a - b
FSub(a, b) == Frac(a.sum * b.n - b.sum * a.n, a.n * b.n)

\* np.median(prices) of a non-empty list of numbers
np_median(prices) ==
    LET sorted == StableSort("value_asc", prices)
        n == Len(prices)
    IN  IF n % 2 = 1 THEN Frac(sorted[(n + 1) \div 2], 1)
        ELSE Frac(sorted[n \div 2] + sorted[n \div 2 + 1], 2)

\* price_levels = 10
price_levels == 10

\* level = min(int((price - price_min) / price_range * (price_levels - 1)), price_levels - 1)
level_of(price, price_min, price_range) ==
    Min(((price - price_min) * (price_levels - 1)) \div price_range, price_levels - 1)

\* volume_by_level, for levels 0..9
volume_by_level(prices, buy_volumes, sell_volumes) ==
    LET price_min == CHOOSE v \in {prices[i] : i \in 1..Len(prices)} :
                         \A i \in 1..Len(prices) : v <= prices[i]
        price_max == CHOOSE v \in {prices[i] : i \in 1..Len(prices)} :
                         \A i \in 1..Len(prices) : v >= prices[i]
        price_range == price_max - price_min
    IN  [level \in 0..(price_levels - 1) |->
           SeqSum([j \in 1..Len(prices) |->
                     IF price_range > 0 /\ level_of(prices[j], price_min, price_range) = level
                     THEN buy_volumes[j] + sell_volumes[j] ELSE 0])]

\* _calculate_cost_concentration(prices, buy_volumes, sell_volumes), on non-empty
\* arrays of one length
calculate_cost_concentration(prices, buy_volumes, sell_volumes) ==
    LET total_volume == SeqSum(buy_volumes) + SeqSum(sell_volumes)
    IN  IF total_volume = 0
        THEN [top20_price_range |-> Ratio(0, 1), volume_concentration |-> Ratio(0, 1),
              price_dispersion |-> Ratio(0, 1)]
        ELSE LET by_level == volume_by_level(prices, buy_volumes, sell_volumes)
                 sorted == StableSort("value_desc", [k \in 1..price_levels |-> by_level[k - 1]])
                 top20_count == Max(1, price_levels \div 5)
                 top20_volume == SeqSum(Take(sorted, top20_count))
                 by_price == StableSort("value_asc", prices)
                 price_range == by_price[Len(prices)] - by_price[1]
             IN  [top20_price_range |-> Frac(top20_count, price_levels),
                  volume_concentration |-> Frac(top20_volume, total_volume),
                  price_dispersion |-> IF SeqSum(prices) > 0
                                       THEN Frac(price_range * Len(prices), SeqSum(prices))
                                       ELSE Ratio(0, 1)]

\* row.price_distribution: text that json.loads rejects, or the dict it gives
NotJson == [json |-> FALSE]

Json(data) == [json |-> TRUE, data |-> data]

SnapshotKeys == {"p", "bv", "sv", "ba", "sa"}

\* _analyze_daily_cost(row), with the date analyze_holding_cost adds to its answer
analyze_daily_cost(row) ==
    IF ~row.price_distribution.json
    THEN [date |-> row.trade_date]      \* json.loads raises: return {}
    ELSE IF ~(SnapshotKeys \subseteq DOMAIN row.price_distribution.data)
    THEN [date |-> row.trade_date]      \* KeyError: return {}
    ELSE LET price_data == row.price_distribution.data
             total_buy_amount == SeqSum(price_data.ba)
             total_buy_volume == SeqSum(price_data.bv)
             buy_vwap == IF total_buy_volume > 0 THEN Frac(total_buy_amount, total_buy_volume)
                         ELSE Ratio(0, 1)
             total_sell_amount == SeqSum(price_data.sa)
             total_sell_volume == SeqSum(price_data.sv)
             sell_vwap == IF total_sell_volume > 0 THEN Frac(total_sell_amount, total_sell_volume)
                          ELSE Ratio(0, 1)
             price_median == np_median(price_data.p)
             spread == FSub(buy_vwap, sell_vwap)
         IN  [buy_vwap |-> buy_vwap,
              sell_vwap |-> sell_vwap,
              vwap_spread |-> spread,
              price_median |-> price_median,
              buy_median_diff |-> FSub(buy_vwap, price_median),
              sell_median_diff |-> FSub(sell_vwap, price_median),
              cost_pressure |-> IF price_median.sum > 0
                                THEN Frac(spread.sum * price_median.n * 100,
                                          spread.n * price_median.sum)
                                ELSE Ratio(0, 1),
              cost_concentration |-> calculate_cost_concentration(price_data.p, price_data.bv,
                                                                  price_data.sv),
              total_buy_amount |-> row.total_buy_amount,
              total_sell_amount |-> row.total_sell_amount,
              date |-> row.trade_date]

RECURSIVE LCM(_)
\* the least common denominator of a list of floats
LCM(s) == IF s = <<>> THEN 1
          ELSE LET r == LCM(Tail(s)) IN (s[1].n * r) \div GCD(s[1].n, r)

\* windows = [2, 5, 20, 60]
windows == {2, 5, 20, 60}

\* the entry of one window in _calculate_multi_day_cost
window_entry(window_data) ==
    LET buy_vwaps == [i \in 1..Len(window_data) |-> window_data[i].buy_vwap]
        unit == LCM(buy_vwaps)
    IN  [avg_buy_vwap |-> FMean(buy_vwaps),
         avg_sell_vwap |-> FMean([i \in 1..Len(window_data) |-> window_data[i].sell_vwap]),
         avg_cost_pressure |-> FMean([i \in 1..Len(window_data) |-> window_data[i].cost_pressure]),
         cost_trend |-> determine_cost_trend(
                            [i \in 1..Len(window_data) |->
                               buy_vwaps[i].sum * (unit \div buy_vwaps[i].n)], unit)]

\* _calculate_multi_day_cost(daily_analyses)
calculate_multi_day_cost(daily_analyses) ==
    LET reported == {w \in windows : Len(daily_analyses) >= w}
    IN  IF \E w \in reported : \E i \in 1..w : ~HasCosts(daily_analyses[i])
        THEN Raised      \* KeyError: 'buy_vwap'
        ELSE Returns([w \in reported |-> window_entry(Take(daily_analyses, w))])

\* what _calculate_trend_strength, _determine_trend_direction, _detect_reversal_signals
\* and _find_support_levels make of the histories
trend_summary(buy_vwaps, cost_pressures) == [trend |-> "analysed"]

\* _analyze_cost_trend(cost_history)
analyze_cost_trend(cost_history) ==
    IF Len(cost_history) < 5 THEN Returns([trend |-> "insufficient_data"])
    ELSE IF \E i \in 1..Len(cost_history) : ~HasCosts(cost_history[i])
    THEN Raised      \* KeyError: 'buy_vwap'
    ELSE Returns(trend_summary([i \in 1..Len(cost_history) |-> cost_history[i].buy_vwap],
                               [i \in 1..Len(cost_history) |-> cost_history[i].cost_pressure]))

\* analyze_holding_cost(stock_code, lookback_days) when the query fetched result and
\* KMeans answers labels
analyze_holding_cost(result, lookback_days, labels) ==
    IF result = <<>> THEN Returns(<<>>)
    ELSE LET cost_analyses == [i \in 1..Len(result) |-> analyze_daily_cost(result[i])]
             multi_day_costs == calculate_multi_day_cost(cost_analyses)
             cost_trend_analysis == analyze_cost_trend(cost_analyses)
             levels == find_cost_levels(cost_analyses, labels)
         IN  IF multi_day_costs.raised \/ cost_trend_analysis.raised \/ levels.raised
             THEN Raised
             ELSE Returns([analysis_days |-> lookback_days,
                           latest_cost |-> cost_analyses[1],
                           cost_history |-> cost_analyses,
                           multi_day_averages |-> multi_day_costs.value,
                           cost_trend_analysis |-> cost_trend_analysis.value,
                           support_resistance_levels |-> levels.value])

\* the longest cost history drawn from the value sets below
MaxHistory == 4

\* costs 10.0 .. 14.0
CostValues == 10..14

\* costs 0.00 .. 0.04
CentValues == 0..4

\* the calls of _determine_cost_trend
TrendCalls ==
    {[fn |-> "trend", cost_history |-> h, unit |-> 1] :
        h \in SeqsUpTo(CostValues, MaxHistory) \cup {<<10, 11, 12, 13, 14>>, <<14, 13, 12, 11, 10>>}}
    \cup {[fn |-> "trend", cost_history |-> h, unit |-> 100] : h \in SeqsUpTo(CentValues, MaxHistory)}

\* daily analyses as far as _find_cost_levels reads them
LevelEntries ==
    {[buy_vwap |-> Ratio(v, 1), total_buy_amount |-> 100] : v \in {10, 11, 14}}
      \cup {[buy_vwap |-> Ratio(10, 1), total_buy_amount |-> 0]}

\* the calls of _find_cost_levels
LevelCalls == {[fn |-> "levels", cost_history |-> h] : h \in SeqsUpTo(LevelEntries, MaxHistory)}

\* price distributions: three snapshots, one that is not JSON, one without 'ba'
Distributions ==
    {Json([p |-> <<10, 11, 12>>, bv |-> <<1, 2, 1>>, sv |-> <<2, 1, 1>>,
           ba |-> <<10, 22, 12>>, sa |-> <<20, 11, 12>>]),
     Json([p |-> <<10, 12>>, bv |-> <<0, 0>>, sv |-> <<1, 1>>,
           ba |-> <<0, 0>>, sa |-> <<10, 12>>]),
     Json([p |-> <<12, 14>>, bv |-> <<1, 3>>, sv |-> <<1, 1>>,
           ba |-> <<12, 42>>, sa |-> <<12, 14>>]),
     NotJson,
     Json([p |-> <<10, 11>>, bv |-> <<1, 1>>, sv |-> <<1, 1>>, sa |-> <<10, 11>>])}

\* the most rows a fetched history has
MaxRows == 3

\* the rows of the query, newest first (ORDER BY trade_date DESC)
HistoryRows(ds) ==
    [i \in 1..Len(ds) |->
       [trade_date |-> Len(ds) - i + 1, price_distribution |-> ds[i],
        total_buy_amount |-> 100, total_sell_amount |-> 100]]

\* the calls of analyze_holding_cost
AnalyzeCalls == {[fn |-> "analyze", result |-> HistoryRows(ds), lookback_days |-> 60] :
                   ds \in SeqsUpTo(Distributions, MaxRows)}

\* the most price levels of a snapshot _calculate_cost_concentration is called with
MaxLevels == 3

\* a price level of a snapshot: <<price, buy volume, sell volume>>
PriceLevels == {<<price, vol[1], vol[2]>> :
                  price \in {10, 12, 19}, vol \in {<<0, 0>>, <<1, 0>>, <<1, 2>>}}

\* the calls of _calculate_cost_concentration: arrays of one length
ConcentrationCalls ==
    {[fn |-> "concentration",
      prices |-> [i \in 1..Len(levels) |-> levels[i][1]],
      buy_volumes |-> [i \in 1..Len(levels) |-> levels[i][2]],
      sell_volumes |-> [i \in 1..Len(levels) |-> levels[i][3]]] :
        levels \in SeqsUpTo(PriceLevels, MaxLevels)}

CostCalls == TrendCalls \cup LevelCalls \cup AnalyzeCalls \cup ConcentrationCalls

\* a call into the holding-cost analysis
InitCost ==
    /\ cost_args \in CostCalls
    /\ cost_result = <<>>
    /\ ScoreIdle /\ SignalIdle /\ RiskIdle /\ BlockIdle /\ MaIdle /\ BatchIdle
    /\ SeriesIdle /\ AlertIdle /\ ApiIdle

DetermineCostTrend ==
    /\ cost_args.fn = "trend"
    /\ cost_result = <<>>
    /\ cost_result' = <<determine_cost_trend(cost_args.cost_history, cost_args.unit)>>
    /\ UNCHANGED <<cost_args, scoreVars, signalVars, riskVars, blockVars, maVars, batchVars,
                   seriesVars, alertVars, apiVars>>

FindCostLevels ==
    /\ cost_args.fn = "levels"
    /\ cost_result = <<>>
    /\ \E labels \in clusterings(cost_args.cost_history) :
         cost_result' = <<find_cost_levels(cost_args.cost_history, labels)>>
    /\ UNCHANGED <<cost_args, scoreVars, signalVars, riskVars, blockVars, maVars, batchVars,
                   seriesVars, alertVars, apiVars>>

AnalyzeHoldingCost ==
    /\ cost_args.fn = "analyze"
    /\ cost_result = <<>>
    /\ LET cost_analyses == [i \in 1..Len(cost_args.result) |->
                               analyze_daily_cost(cost_args.result[i])]
       IN  \E labels \in clusterings(cost_analyses) :
             cost_result' = <<analyze_holding_cost(cost_args.result, cost_args.lookback_days,
                                                   labels)>>
    /\ UNCHANGED <<cost_args, scoreVars, signalVars, riskVars, blockVars, maVars, batchVars,
                   seriesVars, alertVars, apiVars>>

CalculateCostConcentration ==
    /\ cost_args.fn = "concentration"
    /\ cost_result = <<>>
    /\ cost_result' = <<calculate_cost_concentration(cost_args.prices, cost_args.buy_volumes,
                                                     cost_args.sell_volumes)>>
    /\ UNCHANGED <<cost_args, scoreVars, signalVars, riskVars, blockVars, maVars, batchVars,
                   seriesVars, alertVars, apiVars>>

NextCost ==
    \/ DetermineCostTrend
    \/ FindCostLevels
    \/ AnalyzeHoldingCost
    \/ CalculateCostConcentration

SpecCost == InitCost /\ [][NextCost]_vars

----------------------------------------------------------------------------
(* Claims about the holding-cost analysis *)

\* the call of f into the holding-cost analysis has returned
CostReturned(f) == cost_args.fn = f /\ cost_result # <<>>

\* the least-squares line through (i, y[i+1]), i = 0..n-1, in centred sums scaled by n:
\* slope = LsA / LsB, and n*LsB*(y[i] - yhat[i]) = LsResidual
LsDx(y, i) == Len(y) * (i - 1) - RangeSum([k \in 1..Len(y) |-> k - 1], 0, Len(y) - 1)

LsDy(y, i) == Len(y) * y[i] - RangeSum(y, 0, Len(y) - 1)

LsA(y) == RangeSum([i \in 1..Len(y) |-> LsDx(y, i) * LsDy(y, i)], 0, Len(y) - 1)

LsB(y) == RangeSum([i \in 1..Len(y) |-> LsDx(y, i) * LsDx(y, i)], 0, Len(y) - 1)

LsResidual(y, i) == LsDy(y, i) * LsB(y) - LsA(y) * LsDx(y, i)

\* SS_res and SS_tot over the common denominator (n * LsB)^2
LsSSres(y) == RangeSum([i \in 1..Len(y) |-> LsResidual(y, i) * LsResidual(y, i)], 0, Len(y) - 1)

LsSStot(y) == LsB(y) * LsB(y) * RangeSum([i \in 1..Len(y) |-> LsDy(y, i) * LsDy(y, i)], 0, Len(y) - 1)

\* R^2 = 1 - SS_res/SS_tot > 0.5, with R^2 = 0 when SS_tot = 0
LsClear(y) == LsSStot(y) # 0 /\ 2 * LsSSres(y) < LsSStot(y)

\* the trend the claim gives a history of costs counted in 1/unit
TrendOf(y, unit) ==
    IF Len(y) < 2 THEN "stable"
    ELSE IF LsClear(y) /\ 100 * LsA(y) > unit * LsB(y) THEN "rising"
    ELSE IF LsClear(y) /\ 100 * LsA(y) < -(unit * LsB(y)) THEN "falling"
    ELSE "stable"

\* C15: _determine_cost_trend answers 'rising' exactly when the least-squares slope is
\* > 0.01 and R^2 > 0.5, 'falling' exactly when the slope is < -0.01 and R^2 > 0.5, and
\* 'stable' otherwise (fewer than 2 points, constant histories with SS_tot = 0);
\* [10,11,12,13,14] gives 'rising' and its reversal 'falling'.
C15_CostTrend ==
    CostReturned("trend") =>
      /\ cost_result[1] = TrendOf(cost_args.cost_history, cost_args.unit)
      /\ (cost_args.unit = 1 /\ cost_args.cost_history = <<10, 11, 12, 13, 14>>)
           => cost_result[1] = "rising"
      /\ (cost_args.unit = 1 /\ cost_args.cost_history = <<14, 13, 12, 11, 10>>)
           => cost_result[1] = "falling"
      /\ (\A i \in 1..Len(cost_args.cost_history) :
             cost_args.cost_history[i] = cost_args.cost_history[1])
           => cost_result[1] = "stable"

\* the call on [10,11,12,13,14] has answered 'rising'
C15_Witness ==
    /\ CostReturned("trend")
    /\ cost_args.unit = 1
    /\ cost_args.cost_history = <<10, 11, 12, 13, 14>>
    /\ cost_result[1] = "rising"

\* C16: for a history of at least 3 days _find_cost_levels returns levels sorted ascending
\* by price_level, of which exactly one, the first, is 'support' and every other is
\* 'resistance'; for fewer than 3 days it returns the empty list.
C16_CostLevels ==
    CostReturned("levels") =>
      LET levels == cost_result[1].value
      IN  /\ ~cost_result[1].raised
          /\ IF Len(cost_args.cost_history) >= 3
             THEN /\ Len(levels) >= 1
                  /\ \A i \in 1..(Len(levels) - 1) :
                       ~FracGreater(levels[i].price_level, levels[i + 1].price_level)
                  /\ Cardinality({i \in 1..Len(levels) : levels[i].type = "support"}) = 1
                  /\ levels[1].type = "support"
                  /\ \A i \in 2..Len(levels) : levels[i].type = "resistance"
             ELSE levels = <<>>

\* a history of four days has given three levels
C16_Witness ==
    /\ CostReturned("levels")
    /\ Len(cost_args.cost_history) = 4
    /\ ~cost_result[1].raised
    /\ Len(cost_result[1].value) = 3
    /\ cost_result[1].value[1].sample_count = 2

\* the days of the fetched history whose price_distribution is malformed
BadDays(result) ==
    {i \in 1..Len(result) :
        \/ ~result[i].price_distribution.json
        \/ ~(SnapshotKeys \subseteq DOMAIN result[i].price_distribution.data)}

\* C17 (as claimed): on a non-empty history with one malformed day, analyze_holding_cost
\* does not raise: it returns a report whose cost_history has an entry for every day,
\* the malformed day's entry being empty (no cost fields).
C17_NoFaultOnMalformedDay ==
    (CostReturned("analyze") /\ Cardinality(BadDays(cost_args.result)) = 1) =>
      /\ ~cost_result[1].raised
      /\ Len(cost_result[1].value.cost_history) = Len(cost_args.result)
      /\ \A i \in BadDays(cost_args.result) : ~HasCosts(cost_result[1].value.cost_history[i])

----------------------------------------------------------------------------
(* More claims about the scoring model *)

\* the deductions as the claim tabulates them
ClaimedA(r) == IF r.amplitude > 10 THEN 30 ELSE IF r.amplitude > 7 THEN 20
               ELSE IF r.amplitude > 5 THEN 10 ELSE 0

ClaimedT(r) == IF r.turnover_rate > 20 THEN 25 ELSE IF r.turnover_rate > 10 THEN 15
               ELSE IF r.turnover_rate > 5 THEN 5 ELSE 0

ClaimedL(r) == IF r.total_amount < 10000000 THEN 20
               ELSE IF r.total_amount < 50000000 THEN 10 ELSE 0

ClaimedV(r) == IF r.volatility_20d > 3 THEN 15 ELSE IF r.volatility_20d > 2 THEN 10 ELSE 0

\* C18 (as claimed): when the day row exists, risk_score = 100 - A - T - L - V for every
\* value of the four fields, with L = 20 whenever total_amount < 1e7.
C18_RiskFormula ==
    (risk_result # <<>> /\ risk_row[1] # <<>>) =>
      LET r == risk_row[1][1]
      IN  risk_result[1] = Pt(100 - ClaimedA(r) - ClaimedT(r) - ClaimedL(r) - ClaimedV(r))

\* the moving-average term as the claim tabulates it, for a row with ma5 and ma20
ClaimedMaTerm(r) ==
    IF r.ma60 # 0 /\ r.ma5 > r.ma20 /\ r.ma20 > r.ma60 THEN 30
    ELSE IF r.ma5 > r.ma20 THEN 20
    ELSE IF r.close_price > r.ma5 THEN 10
    ELSE 0

\* C19 (as claimed): for every row with a defined ma5 and ma20 the moving-average term
\* is 30 / 20 / 10 / 0 by the ordering (20 whenever ma5 > ma20 without the full
\* ordering), never above 30, and the technical score is
\* clamp(50 + MA term + volume-price term + trend-strength term + near-limit adjustment).
C19_MaTerm ==
    (report # <<>> /\ dayRow # <<>>) =>
      LET r == dayRow[1]
      IN  (r.ma5 # 0 /\ r.ma20 # 0) =>
            /\ ma_score(r) = Pt(ClaimedMaTerm(r))
            /\ ma_score(r) <= Pt(30)
            /\ report[1].scores.technical =
                 round2(Clamp(Pt(50) + Pt(ClaimedMaTerm(r)) + volume_price_score(r)
                                + trend_strength_score(r) + limit_adjust(r)))

----------------------------------------------------------------------------
(* Alerts: AlertService._check_capital_alerts (alert_service.py).  Amounts  *)
(* are integers (yuan); prev_inflow is <<>> when the scalar subquery finds   *)
(* no row for the day before (NULL) and <<v>> when it finds the value v.     *)

\* a slip: net_inflow <= -10000000
large_outflow_inclusive(net_inflow) == net_inflow <= -10000000

\* result.net_inflow < -10000000
large_outflow(net_inflow) == net_inflow < -10000000

\* a slip: the large orders' sign alone
capital_divergence_large_only(net_inflow, large_net_inflow) == large_net_inflow < 0

\* result.net_inflow > 0 and result.large_net_inflow < 0
capital_divergence(net_inflow, large_net_inflow) ==
    net_inflow > 0 /\ large_net_inflow < 0

\* result.prev_inflow and result.net_inflow > result.prev_inflow * 2: None and 0 are
\* both false in the first test
capital_acceleration(net_inflow, prev_inflow) ==
    /\ prev_inflow # <<>>
    /\ prev_inflow[1] # 0
    /\ net_inflow > prev_inflow[1] * 2

Alert(type, level) == [type |-> type, level |-> level]

\* _check_capital_alerts(stock_code, trade_date) when the query fetched result
check_capital_alerts(result) ==
    IF result = <<>> THEN <<>>
    ELSE LET r == result[1]
             a1 == IF large_outflow(r.net_inflow)
                   THEN <<Alert("capital_outflow", "warning")>> ELSE <<>>
             a2 == IF capital_divergence(r.net_inflow, r.large_net_inflow)
                   THEN <<Alert("capital_divergence", "warning")>> ELSE <<>>
             a3 == IF capital_acceleration(r.net_inflow, r.prev_inflow)
                   THEN <<Alert("capital_acceleration", "info")>> ELSE <<>>
         IN  a1 \o a2 \o a3

\* stock_price_distribution rows with the day before's net_inflow
AlertRows ==
    {[net_inflow |-> n, large_net_inflow |-> l, prev_inflow |-> q] :
        n \in {-20000000, -10000001, -10000000, -5, 0, 5, 20000000},
        l \in {-5, 0, 5},
        q \in {<<>>} \cup {<<v>> : v \in {-15000000, -4, 0, 2, 10000000}}}

\* a call of _check_capital_alerts whose query fetched alert_row[1]
InitAlert ==
    /\ alert_row \in {<<f>> : f \in Fetched(AlertRows)}
    /\ alert_result = <<>>
    /\ ScoreIdle /\ SignalIdle /\ RiskIdle /\ BlockIdle /\ MaIdle /\ BatchIdle
    /\ SeriesIdle /\ CostIdle /\ ApiIdle

CheckCapitalAlerts ==
    /\ alert_result = <<>>
    /\ alert_result' = <<check_capital_alerts(alert_row[1])>>
    /\ UNCHANGED <<alert_row, scoreVars, signalVars, riskVars, blockVars, maVars, batchVars,
                   seriesVars, costVars, apiVars>>

NextAlert == CheckCapitalAlerts

SpecAlert == InitAlert /\ [][NextAlert]_vars

\* the place of an alert type in the fixed order
AlertRank(type) ==
    CASE type = "capital_outflow" -> 1
      [] type = "capital_divergence" -> 2
      [] type = "capital_acceleration" -> 3

\* the alerts contain one of the type, at the level
Fired(alerts, type, level) ==
    \E i \in 1..Len(alerts) : alerts[i].type = type /\ alerts[i].level = level

\* C20: capital_outflow (warning) is raised iff net_inflow < -10,000,000 (not at exactly
\* -10,000,000), capital_divergence (warning) iff net_inflow > 0 and large_net_inflow < 0,
\* each whatever the other rules do; the alerts come in the order outflow, divergence,
\* acceleration; an absent row gives the empty list.
C20_CapitalAlerts ==
    alert_result # <<>> =>
      LET alerts == alert_result[1]
      IN  IF alert_row[1] = <<>> THEN alerts = <<>>
          ELSE LET r == alert_row[1][1]
               IN  /\ Fired(alerts, "capital_outflow", "warning") <=> r.net_inflow < -10000000
                   /\ Fired(alerts, "capital_divergence", "warning")
                        <=> (r.net_inflow > 0 /\ r.large_net_inflow < 0)
                   /\ \A i \in 1..Len(alerts) :
                        /\ alerts[i].type \in {"capital_outflow", "capital_divergence",
                                               "capital_acceleration"}
                        /\ alerts[i].type \in {"capital_outflow", "capital_divergence"}
                             => alerts[i].level = "warning"
                   /\ \A i \in 1..(Len(alerts) - 1) :
                        AlertRank(alerts[i].type) < AlertRank(alerts[i + 1].type)

\* an outflow just past the threshold, with acceleration after it
C20_Witness ==
    /\ alert_result # <<>>
    /\ alert_row[1] # <<>>
    /\ alert_row[1][1].net_inflow = -10000001
    /\ Len(alert_result[1]) = 2
    /\ alert_result[1][1].type = "capital_outflow"
    /\ alert_result[1][2].type = "capital_acceleration"

\* the rule pass ran on a fetched row
AlertChecked == alert_result # <<>> /\ alert_row[1] # <<>>

\* C21: capital_acceleration (info) is raised iff the day before has a net_inflow value
\* and the current net_inflow is strictly more than twice it, for a positive, a zero and
\* a negative value of the day before alike; never when the day before has no record.
C21_Acceleration ==
    AlertChecked =>
      LET r == alert_row[1][1]
      IN  Fired(alert_result[1], "capital_acceleration", "info")
            <=> (r.prev_inflow # <<>> /\ r.net_inflow > 2 * r.prev_inflow[1])

----------------------------------------------------------------------------
(* Stock capital flow: CapitalFlowAnalysis.analyze_stock_capital_flow        *)
(* (analysis_service.py).  net_inflow values are integers (yuan); a slope    *)
(* is the exact fraction sum / n of polyfit_slope.                           *)

\* flows[-k:]
PyLast(flows, k) == SubSeq(flows, Max(1, Len(flows) - k + 1), Len(flows))

\* max(net_inflows)
py_max(flows) == CHOOSE v \in {flows[i] : i \in 1..Len(flows)} :
                   \A i \in 1..Len(flows) : flows[i] <= v

\* min(net_inflows)
py_min(flows) == CHOOSE v \in {flows[i] : i \in 1..Len(flows)} :
                   \A i \in 1..Len(flows) : flows[i] >= v

\* _calculate_continuity(flows)
calculate_continuity(flows) ==
    LET positive_days == Cardinality({i \in 1..Len(flows) : flows[i] > 0})
        negative_days == Cardinality({i \in 1..Len(flows) : flows[i] < 0})
    IN  [positive_days |-> positive_days,
         negative_days |-> negative_days,
         continuity_score |-> IF flows # <<>> THEN Ratio(positive_days, Len(flows))
                              ELSE Ratio(0, 1)]

\* _calculate_stability(flows): the score is 1 - std / abs(mean); std / abs(mean) is
\* kept as its square, the fraction sum((n*f - S)^2) / (n * S^2) with S = sum(flows),
\* so that the score 1.0 is the square 0
calculate_stability(flows) ==
    IF Len(flows) < 2 THEN [one_minus_root_of |-> Ratio(0, 1)]
    ELSE LET n == Len(flows)
             S == SeqSum(flows)
             dev == SeqSum([i \in 1..n |-> (n * flows[i] - S) * (n * flows[i] - S)])
         IN  IF S # 0 THEN [one_minus_root_of |-> Ratio(dev, n * S * S)]
             ELSE [one_minus_root_of |-> Ratio(0, 1)]

\* a slip: slope > 0
slope_improving_any(slope) == slope.sum > 0

\* slope > 0.1
slope_improving(slope) == 10 * slope.sum > slope.n

\* slope < -0.1
slope_deteriorating(slope) == 10 * slope.sum < -slope.n

\* _analyze_trend(recent_flows); np.polyfit does not raise on two or more finite
\* values, so the except branch is not taken
analyze_trend(recent_flows) ==
    IF Len(recent_flows) < 2 THEN "stable"
    ELSE LET x == np_arange(Len(recent_flows))
             y == recent_flows
             slope == polyfit_slope(x, y)
         IN  IF slope_improving(slope) THEN "improving"
             ELSE IF slope_deteriorating(slope) THEN "deteriorating"
             ELSE "stable"

\* analyze_stock_capital_flow(stock_code, start_date, end_date) when the query
\* fetched result (ORDER BY trade_date); {} is <<>>.  The columns that are only
\* copied into daily_details are left out of the rows.
analyze_stock_capital_flow(result) ==
    IF result = <<>> THEN <<>>
    ELSE LET net_inflows == [i \in 1..Len(result) |-> result[i].net_inflow]
         IN  [total_net_inflow |-> SeqSum(net_inflows),
              avg_daily_inflow |-> np_mean(net_inflows),
              max_inflow |-> py_max(net_inflows),
              min_inflow |-> py_min(net_inflows),
              inflow_continuity |-> calculate_continuity(net_inflows),
              inflow_stability |-> calculate_stability(net_inflows),
              recent_trend |-> analyze_trend(PyLast(net_inflows, 5)),
              daily_details |-> [i \in 1..Len(result) |->
                                   [date |-> result[i].trade_date,
                                    net_inflow |-> result[i].net_inflow]]]

\* the most rows the stock-flow query fetches
MaxFlows == 6

\* the net_inflow values of the rows
FlowValues == {-1, 0, 1}

\* the rows of the query, oldest first
StockFlowRows(flows) == [i \in 1..Len(flows) |-> [trade_date |-> i, net_inflow |-> flows[i]]]

\* the calls of analyze_stock_capital_flow
StockFlowCalls == {[fn |-> "stock_flow", result |-> StockFlowRows(flows)] :
                     flows \in SeqsUpTo(FlowValues, MaxFlows)}

----------------------------------------------------------------------------
(* Endpoints: api/v1/capital.py, api/v1/stock.py, api/v1/block.py.  An        *)
(* answer is the JSON body with status 200, or the status of the             *)
(* HTTPException that leaves the handler.  db_ok is whether the queries of   *)
(* the request succeed.                                                      *)

\* the body {"code": 0, "message": "success", "data": data}
Success(data) == [status |-> 200, code |-> 0, message |-> "success", data |-> data]

\* raise HTTPException(status_code=status) leaving the handler
HttpError(status) == [status |-> status]

\* the try block of a handler raises exc, or returns body
Thrown(exc) == [raised |-> TRUE, exc |-> exc]

Body(body) == [raised |-> FALSE, body |-> body]

\* try: ... except Exception as e: raise HTTPException(status_code=500, detail=str(e)).
\* HTTPException derives from Exception, so the handler catches the HTTPException
\* raised inside its own try block as it catches any other exception
except_exception(outcome) == IF outcome.raised THEN HttpError(500) ELSE outcome.body

\* get_stock_capital_flow(stock_code, start_date, end_date) when the analyzer's query
\* fetches result
get_stock_capital_flow(result, db_ok) ==
    except_exception(
      IF ~db_ok THEN Thrown("OperationalError")
      ELSE LET analysis == analyze_stock_capital_flow(result)
           IN  IF analysis = <<>> THEN Thrown("HTTPException(404)")
               ELSE Body(Success(analysis)))

\* get_stock_details(stock_code, start_date, end_date) when the query fetches result
\* (ORDER BY trade_date); a column that is NULL or 0 is 0
get_stock_details(result, db_ok) ==
    except_exception(
      IF ~db_ok THEN Thrown("OperationalError")
      ELSE IF result = <<>> THEN Thrown("HTTPException(404)")
      ELSE LET n == Len(result)
               close_prices == [i \in 1..n |-> result[i].close_price]
               volumes == [i \in 1..n |-> result[i].volume]
               inflows == [i \in 1..n |-> result[i].net_inflow]
           IN  Body(Success(
                 [dates |-> [i \in 1..n |-> result[i].trade_date],
                  prices |-> [i \in 1..n |-> [close |-> close_prices[i], volume |-> volumes[i]]],
                  volumes |-> volumes,
                  inflows |-> [i \in 1..n |-> [net_inflow |-> inflows[i]]],
                  technical_indicators |-> [ma5 |-> calculate_ma(close_prices, 5),
                                            ma20 |-> calculate_ma(close_prices, 20),
                                            ma60 |-> calculate_ma(close_prices, 60),
                                            rsi |-> calculate_rsi(close_prices, 14)],
                  summary |-> [total_days |-> n,
                               avg_volume |-> Ratio(SeqSum(volumes), n),
                               total_inflow |-> SeqSum(inflows),
                               price_change |-> close_prices[n] - close_prices[1]]])))

\* get_stock_cost_analysis(stock_code, days) when the analyzer's query fetches result
\* and KMeans answers labels
get_stock_cost_analysis(result, days, labels, db_ok) ==
    except_exception(
      IF ~db_ok THEN Thrown("OperationalError")
      ELSE LET analysis == analyze_holding_cost(result, days, labels)
           IN  IF analysis.raised THEN Thrown("KeyError")
               ELSE IF analysis.value = <<>> THEN Thrown("HTTPException(404)")
               ELSE Body(Success(analysis.value)))

\* the entry of history for one row of get_block_history
history_entry(row) ==
    [date |-> row.trade_date,
     net_inflow |-> row.net_inflow,
     total_amount |-> row.total_amount,
     inflow_ratio |-> IF row.total_amount # 0 /\ row.total_amount > 0
                      THEN Frac(row.net_inflow * 100, row.total_amount)
                      ELSE Ratio(0, 1)]

\* get_block_history(block_code, days) when the membership query fetches block_info
\* (a row or <<>>) and the history query fetches result
get_block_history(block_info, result, db_ok) ==
    except_exception(
      IF ~db_ok THEN Thrown("OperationalError")
      ELSE IF block_info = <<>> THEN Thrown("HTTPException(404)")
      ELSE LET history == [i \in 1..Len(result) |-> history_entry(result[i])]
           IN  Body(Success(
                 [block_name |-> block_info[1].block_name,
                  block_type |-> block_info[1].block_type,
                  history |-> history,
                  summary |-> [total_days |-> Len(history),
                               avg_inflow_ratio |->
                                 IF history # <<>>
                                 THEN FMean([i \in 1..Len(history) |-> history[i].inflow_ratio])
                                 ELSE Ratio(0, 1),
                               total_net_inflow |->
                                 SeqSum([i \in 1..Len(history) |-> history[i].net_inflow])]])))

\* the requests of the stock-flows endpoint
StockFlowRequests ==
    {[fn |-> "stock_flows", result |-> c.result, db_ok |-> ok] :
        c \in StockFlowCalls, ok \in BOOLEAN}

\* stock_day_data rows joined with stock_price_distribution, oldest first
DetailRows ==
    {[i \in 1..Len(cells) |->
        [trade_date |-> i, close_price |-> cells[i][1], volume |-> cells[i][2],
         net_inflow |-> cells[i][3]]] :
       cells \in SeqsUpTo({<<10, 100, 5>>, <<12, 0, 0>>, <<0, 300, -5>>}, 2)}

\* the requests of the stock details endpoint
DetailRequests ==
    {[fn |-> "details", result |-> rows, db_ok |-> ok] : rows \in DetailRows, ok \in BOOLEAN}

\* the requests of the cost-analysis endpoint, on histories of up to two days
CostAnalysisRequests ==
    {[fn |-> "cost_analysis", result |-> HistoryRows(ds), days |-> 60, db_ok |-> ok] :
        ds \in SeqsUpTo(Distributions, 2), ok \in BOOLEAN}

\* the per-date sums of a block, oldest first
BlockHistoryRows ==
    {[i \in 1..Len(cells) |->
        [trade_date |-> i, net_inflow |-> cells[i][1], total_amount |-> cells[i][2]]] :
       cells \in SeqsUpTo({<<-1, 100>>, <<2, 100>>, <<3, 0>>}, 2)}

\* the requests of the block-history endpoint: the block exists or not
BlockHistoryRequests ==
    {[fn |-> "block_history", block_info |-> info, result |-> rows, db_ok |-> ok] :
        info \in Fetched({[block_name |-> "steel", block_type |-> "industry"]}),
        rows \in BlockHistoryRows, ok \in BOOLEAN}

ApiCalls == StockFlowCalls \cup StockFlowRequests \cup DetailRequests
              \cup CostAnalysisRequests \cup BlockHistoryRequests

\* a call of an analyzer or of an endpoint
InitApi ==
    /\ api_args \in ApiCalls
    /\ api_result = <<>>
    /\ ScoreIdle /\ SignalIdle /\ RiskIdle /\ BlockIdle /\ MaIdle /\ BatchIdle
    /\ SeriesIdle /\ CostIdle /\ AlertIdle

AnalyzeStockCapitalFlow ==
    /\ api_args.fn = "stock_flow"
    /\ api_result = <<>>
    /\ api_result' = <<analyze_stock_capital_flow(api_args.result)>>
    /\ UNCHANGED <<api_args, scoreVars, signalVars, riskVars, blockVars, maVars, batchVars,
                   seriesVars, costVars, alertVars>>

GetStockCapitalFlow ==
    /\ api_args.fn = "stock_flows"
    /\ api_result = <<>>
    /\ api_result' = <<get_stock_capital_flow(api_args.result, api_args.db_ok)>>
    /\ UNCHANGED <<api_args, scoreVars, signalVars, riskVars, blockVars, maVars, batchVars,
                   seriesVars, costVars, alertVars>>

GetStockDetails ==
    /\ api_args.fn = "details"
    /\ api_result = <<>>
    /\ api_result' = <<get_stock_details(api_args.result, api_args.db_ok)>>
    /\ UNCHANGED <<api_args, scoreVars, signalVars, riskVars, blockVars, maVars, batchVars,
                   seriesVars, costVars, alertVars>>

GetStockCostAnalysis ==
    /\ api_args.fn = "cost_analysis"
    /\ api_result = <<>>
    /\ LET cost_analyses == [i \in 1..Len(api_args.result) |->
                               analyze_daily_cost(api_args.result[i])]
       IN  \E labels \in clusterings(cost_analyses) :
             api_result' = <<get_stock_cost_analysis(api_args.result, api_args.days, labels,
                                                     api_args.db_ok)>>
    /\ UNCHANGED <<api_args, scoreVars, signalVars, riskVars, blockVars, maVars, batchVars,
                   seriesVars, costVars, alertVars>>

GetBlockHistory ==
    /\ api_args.fn = "block_history"
    /\ api_result = <<>>
    /\ api_result' = <<get_block_history(api_args.block_info, api_args.result,
                                         api_args.db_ok)>>
    /\ UNCHANGED <<api_args, scoreVars, signalVars, riskVars, blockVars, maVars, batchVars,
                   seriesVars, costVars, alertVars>>

NextApi ==
    \/ AnalyzeStockCapitalFlow
    \/ GetStockCapitalFlow
    \/ GetStockDetails
    \/ GetStockCostAnalysis
    \/ GetBlockHistory

SpecApi == InitApi /\ [][NextApi]_vars

----------------------------------------------------------------------------
(* Claims about the stock capital flow and the endpoints *)

\* the call of f has answered
ApiReturned(f) == api_args.fn = f /\ api_result # <<>>

\* the label the claim gives the values y: by the least-squares slope LsA / LsB
TrendLabelOf(y) ==
    IF Len(y) < 2 THEN "stable"
    ELSE IF 10 * LsA(y) > LsB(y) THEN "improving"
    ELSE IF 10 * LsA(y) < -LsB(y) THEN "deteriorating"
    ELSE "stable"

\* C22: recent_trend is decided by the least-squares slope of the last min(5, n)
\* net_inflow values against their index: 'improving' iff slope > 0.1, 'deteriorating'
\* iff slope < -0.1, 'stable' otherwise; with fewer than 2 points the label is 'stable'
\* and the stability score is 1.0; with no records the whole result is empty.
C22_RecentTrend ==
    ApiReturned("stock_flow") =>
      LET rows == api_args.result
          n == Len(rows)
          y == [i \in 1..Min(5, n) |-> rows[n - Min(5, n) + i].net_inflow]
          res == api_result[1]
      IN  IF n = 0 THEN res = <<>>
          ELSE /\ res # <<>>
               /\ res.recent_trend = TrendLabelOf(y)
               /\ n < 2 => /\ res.recent_trend = "stable"
                           /\ SameNumber(res.inflow_stability.one_minus_root_of, Ratio(0, 1))

\* six rows whose last five fall although all six together do not: the oldest row
\* is outside the fit
C22_Witness ==
    /\ ApiReturned("stock_flow")
    /\ Len(api_args.result) = 6
    /\ api_result[1].recent_trend = "deteriorating"
    /\ TrendLabelOf([i \in 1..6 |-> api_args.result[i].net_inflow]) # "deteriorating"

----------------------------------------------------------------------------
(* Claims about the result list of the top-scoring endpoints *)

\* an endpoint run has answered with its list
ListAnswered ==
    /\ driver \in {"top_stocks", "top_scoring"}
    /\ pc = "done"
    /\ response # <<>>

\* the positions of the scored list whose report reaches min_score
Qualifying ==
    {i \in 1..Len(batch_list(driver, stocks)) :
       /\ ~batch_list(driver, stocks)[i].raises
       /\ batch_list(driver, stocks)[i].total >= request.min_score}

\* the parts of C23 for the list res
TopList(res) ==
    /\ \A i \in 1..Len(res) : res[i].stock \in Qualifying
    /\ \A i \in 1..Len(res) : res[i].total = batch_list(driver, stocks)[res[i].stock].total
    /\ \A i, j \in 1..Len(res) : i < j => res[i].total >= res[j].total
    /\ \A i, j \in 1..Len(res) : i < j => res[i].stock # res[j].stock
    /\ Len(res) <= Max(request.limit, 0)
    /\ Len(res) < Max(request.limit, 0) => Len(res) = Cardinality(Qualifying)
    /\ \A q \in Qualifying \ {res[i].stock : i \in 1..Len(res)} :
         \A i \in 1..Len(res) : res[i].total >= batch_list(driver, stocks)[q].total
    /\ \A i, j \in 1..Len(res) :
         (i < j /\ res[i].total = res[j].total) => res[i].stock < res[j].stock

\* C23: the list of get_top_scoring_stocks / get_top_stocks holds only reports of
\* total >= min_score, in non-increasing order of total, at most max_count (limit) of
\* them (none for a max_count below 1) and those the highest-scoring qualifying ones,
\* reports of equal total in the order in which their stocks were scored.
C23_TopList == ListAnswered => TopList(response[1].stocks)

----------------------------------------------------------------------------
(* Claims about the direction of the cost trend and the cost concentration *)

\* buy_vwap of the history h (newest first) changes by one step from each trading
\* day to the next: step[i] is the cost of day i less the cost of the day before it
DayStep(h) == [i \in 1..(Len(h) - 1) |-> FSub(h[i].buy_vwap, h[i + 1].buy_vwap)]

EvenSteps(h) == \A i \in 1..(Len(h) - 2) : SameNumber(DayStep(h)[i], DayStep(h)[i + 1])

\* C24: on a history of at least 2 days whose buy_vwap rises by the same step > 0.01
\* from each trading day to the next, every window _calculate_multi_day_cost reports
\* has cost_trend 'rising', and 'falling' when buy_vwap falls by the same step: the
\* label is the direction of the cost over time.
C24_TrendOverTime ==
    (/\ CostReturned("analyze")
     /\ Len(cost_args.result) >= 2
     /\ BadDays(cost_args.result) = {}
     /\ ~cost_result[1].raised) =>
      LET h == cost_result[1].value.cost_history
          averages == cost_result[1].value.multi_day_averages
          step == DayStep(h)[1]
      IN  /\ (EvenSteps(h) /\ 100 * step.sum > step.n)
               => \A w \in DOMAIN averages : averages[w].cost_trend = "rising"
          /\ (EvenSteps(h) /\ 100 * step.sum < -step.n)
               => \A w \in DOMAIN averages : averages[w].cost_trend = "falling"

----------------------------------------------------------------------------
(* The block-flows endpoint: api/v1/capital.get_block_capital_flows          *)

\* get_block_capital_flows(trade_date, days, block_type, limit) on the aggregates of
\* table; "" is no block_type (None and "" are both false in `if block_type:`);
\* db_ok is whether the analyzer's query succeeds
get_block_capital_flows(table, trade_date, days, tie, block_type, limit, db_ok) ==
    IF ~db_ok THEN HttpError(500)      \* except Exception
    ELSE LET ranked == calculate_block_capital_flow(table, trade_date, days, tie)
             filtered == IF block_type # ""
                         THEN Pick(ranked, {i \in 1..Len(ranked) :
                                               ranked[i].block_type = block_type})
                         ELSE ranked
             limited == PySliceTo(filtered, limit)
         IN  Success([trade_date |-> trade_date,
                      analysis_days |-> days,
                      total_blocks |-> Len(limited),
                      blocks |-> limited])

\* the query parameters of the block-flows endpoint
BlockFlowRequests ==
    {[fn |-> "block_flows", block_type |-> t, limit |-> n, db_ok |-> ok] :
        t \in {"", "industry", "concept", "region"}, n \in {1, 20}, ok \in BOOLEAN}

\* GET /api/v1/capital/block-flows on a patterned table, over the whole span of dates
InitBlockFlows ==
    /\ \E sc \in {c \in PatternScenarios : c.days = MaxDays} :
         /\ flow_table = sc.table
         /\ flow_args = [trade_date |-> sc.trade_date, days |-> sc.days]
    /\ tie_order \in {"asc", "desc"}
    /\ block_result = <<>>
    /\ api_args \in BlockFlowRequests
    /\ api_result = <<>>
    /\ ScoreIdle /\ SignalIdle /\ RiskIdle /\ MaIdle /\ BatchIdle
    /\ SeriesIdle /\ CostIdle /\ AlertIdle

GetBlockCapitalFlows ==
    /\ api_args.fn = "block_flows"
    /\ api_result = <<>>
    /\ api_result' = <<get_block_capital_flows(flow_table, flow_args.trade_date,
                                               flow_args.days, tie_order,
                                               api_args.block_type, api_args.limit,
                                               api_args.db_ok)>>
    /\ UNCHANGED <<api_args, scoreVars, signalVars, riskVars, blockVars, maVars, batchVars,
                   seriesVars, costVars, alertVars>>

NextBlockFlows == GetBlockCapitalFlows

SpecBlockFlows == InitBlockFlows /\ [][NextBlockFlows]_vars

\* the blocks of the window that have the type
TypedBlocks(type) == {b \in WindowBlocks : BlockTypeOf(b) = type}

\* C25: the block-flows endpoint called with block_type = T and limit = L answers the
\* L blocks of type T of the highest avg_inflow_ratio among all blocks of type T in the
\* window (fewer only when fewer than L exist): no block of type T is lost because of
\* blocks of other types.
C25_TypedTop ==
    (/\ ApiReturned("block_flows")
     /\ api_args.block_type # ""
     /\ api_args.db_ok) =>
      LET res == api_result[1].data.blocks
          returned == {res[i].block_code : i \in 1..Len(res)}
          typed == TypedBlocks(api_args.block_type)
      IN  /\ api_result[1].status = 200
          /\ returned \subseteq typed
          /\ Cardinality(returned) = Len(res)
          /\ Len(res) = Min(api_args.limit, Cardinality(typed))
          /\ \A b \in typed \ returned : \A i \in 1..Len(res) :
               ~FracGreater(WindowMean(b), res[i].avg_inflow_ratio)

----------------------------------------------------------------------------
(* Claims about the status of the endpoints *)

Endpoints == {"stock_flows", "details", "cost_analysis", "block_history"}

\* the request finds no data: no rows for the stock and range, or no such block
NoData ==
    IF api_args.fn = "block_history" THEN api_args.block_info = <<>>
    ELSE api_args.result = <<>>

\* C26: when there is no data (no rows for the stock or range, no such block) the
\* stock-flows, stock details, cost-analysis and block-history endpoints answer with
\* status 404; status 500 is only the answer to an unexpected failure, never to the
\* no-data case.
C26_NotFound ==
    (api_args # <<>> /\ api_args.fn \in Endpoints /\ api_result # <<>>) =>
      /\ (api_args.db_ok /\ NoData) => api_result[1].status = 404
      /\ api_result[1].status = 500 => ~NoData \/ ~api_args.db_ok

----------------------------------------------------------------------------
(* Claims about the cost concentration *)

\* the bins of the call, as a list
BinVolumes ==
    LET by_level == volume_by_level(cost_args.prices, cost_args.buy_volumes,
                                    cost_args.sell_volumes)
    IN  [k \in 1..price_levels |-> by_level[k - 1]]

\* the total volume of the call
TotalVolume == SeqSum(cost_args.buy_volumes) + SeqSum(cost_args.sell_volumes)

\* C27: with total volume > 0 every price level's buy+sell volume is in exactly one of
\* the 10 bins, so the bins sum to the total volume, 0 <= volume_concentration <= 1, and
\* a snapshot whose price levels fall in at most 2 bins (a single price level, all
\* levels at one price) has volume_concentration = 1; with total volume 0 the three
\* metrics are 0.
C27_Concentration ==
    CostReturned("concentration") =>
      LET c == cost_result[1]
          distinct_prices == {cost_args.prices[i] : i \in 1..Len(cost_args.prices)}
      IN  IF TotalVolume = 0
          THEN /\ SameNumber(c.top20_price_range, Ratio(0, 1))
               /\ SameNumber(c.volume_concentration, Ratio(0, 1))
               /\ SameNumber(c.price_dispersion, Ratio(0, 1))
          ELSE /\ SeqSum(BinVolumes) = TotalVolume
               /\ c.volume_concentration.sum >= 0
               /\ c.volume_concentration.sum <= c.volume_concentration.n
               /\ Cardinality(distinct_prices) <= 2
                    => SameNumber(c.volume_concentration, Ratio(1, 1))

----------------------------------------------------------------------------
(* Claims about the ranges of the fundamental and the risk score *)

\* C28: every adjustment term of the fundamental score is a bonus within [0, its
\* maximum] (inflow [0,25], ranking [0,20], continuity [0,15], block type 0, 5 or 10),
\* so for every block row 50 <= fundamental_score <= 100.
C28_FundamentalAtLeast50 ==
    (report # <<>> /\ blockRow # <<>>) =>
      /\ report[1].scores.fundamental >= Pt(50)
      /\ report[1].scores.fundamental <= Pt(100)
      /\ calculate_fundamental_score(blockRow) >= Pt(50)

\* C29: with a day row risk_score is a multiple of 5 between 10 and 100: the four
\* deductions total at most 90, so the clamp to [0, 100] changes nothing and the score
\* is never below 10.
C29_RiskMultipleOf5 ==
    (risk_result # <<>> /\ risk_row[1] # <<>>) =>
      LET r == risk_row[1][1]
          deduction == amplitude_deduction(r) + turnover_deduction(r)
                         + liquidity_deduction(r) + volatility_deduction(r)
      IN  /\ risk_result[1] % Pt(5) = 0
          /\ risk_result[1] >= Pt(10)
          /\ risk_result[1] <= Pt(100)
          /\ deduction <= Pt(90)
          /\ risk_result[1] = Pt(100) - deduction

\* the row with the four deductions at their largest scored 10
C29_Witness ==
    /\ risk_result # <<>>
    /\ risk_row[1] # <<>>
    /\ risk_row[1][1].amplitude = 11
    /\ risk_row[1][1].turnover_rate = 21
    /\ risk_row[1][1].total_amount = 1000000
    /\ risk_row[1][1].volatility_20d = 4
    /\ risk_result[1] = Pt(10)

----------------------------------------------------------------------------
(* Claims about the alerts that fire together *)

\* C30: capital_outflow and capital_divergence never fire together (net_inflow cannot
\* be below -10,000,000 and above 0), so _check_capital_alerts returns at most 2 alerts
\* and no alert type twice.
C30_AtMostTwoAlerts ==
    alert_result # <<>> =>
      LET alerts == alert_result[1]
      IN  /\ ~(Fired(alerts, "capital_outflow", "warning")
                 /\ Fired(alerts, "capital_divergence", "warning"))
          /\ Len(alerts) <= 2
          /\ \A i, j \in 1..Len(alerts) : i # j => alerts[i].type # alerts[j].type

\* capital_divergence and capital_acceleration fired together
C30_Witness ==
    /\ AlertChecked
    /\ Len(alert_result[1]) = 2
    /\ alert_result[1][1].type = "capital_divergence"
    /\ alert_result[1][2].type = "capital_acceleration"

\* capital_outflow and capital_acceleration fired together: an outflow that is still
\* more than twice the outflow of the day before
C30_OutflowWithAcceleration ==
    /\ AlertChecked
    /\ alert_row[1][1].prev_inflow # <<>>
    /\ alert_row[1][1].prev_inflow[1] < 0
    /\ Fired(alert_result[1], "capital_outflow", "warning")
    /\ Fired(alert_result[1], "capital_acceleration", "info")

====
